---- MODULE Spec2Model ----
(***************************************************************************)
(* A model of the sandboxed filesystem primitives of agent-toolkit:        *)
(*   - glob  (packages/filesystem/src/core/glob.ts)                        *)
(*   - grep  (packages/filesystem/src/core/grep.ts, src/unnamed/part_009)  *)
(*   - read, write, edit, list (core/read.ts, write.ts, edit.ts, list.ts)  *)
(* and of the select operation of the database package.                    *)
(*                                                                         *)
(* Strings are sequences of one-character strings, so that prefix tests,   *)
(* splitting on a separator and regular-expression matching are computed   *)
(* character by character, as the code computes them.  Absolute paths are  *)
(* kept with "/" between their segments; the host's separator (path.sep)   *)
(* shows in the relative paths the path module hands out.                  *)
(***************************************************************************)
EXTENDS Integers, Sequences, FiniteSets, TLC

VARIABLES
    \* ---- the pattern compiler on its own (globToRegex + RegExp.test)
    mPc,        \* "idle" | "compiled" | "tested"
    mPattern,   \* the glob pattern handed to globToRegex
    mRegex,     \* the compiled regular expression (sequence of tokens)
    mPath,      \* the normalized relative path handed to regex.test
    mResult,    \* the boolean regex.test returned
    \* ---- one glob call over a directory tree
    fs,         \* the directory tree: absolute path -> "file" | "dir"
    gPc,        \* "idle" | "done"
    gCall,      \* the arguments of the call: workspace, pattern, searchPath
    gWalked,    \* the directories handed to fs.readdir by the call
    gResult,    \* the OperationResult the call resolved to
    \* ---- one grep call and its ripgrep child process
    rPc,        \* "idle" | "running" | "done"
    rCall,      \* the arguments of the call: workspace, options
    rExamined,  \* TRUE once the search path has been computed and checked
    rSpawned,   \* the searchPath argument of each spawn("rg", ...) so far
    rProc,      \* the child process: "none" | "alive" | "failed" | "closed"
    rStdout,    \* the stdout accumulated by the 'data' handler
    rStderr,    \* the stderr accumulated by the 'data' handler
    rClose,     \* the exit code the last 'close' event carried
    rPromise,   \* the promise of executeRipgrep: pending, resolved or rejected
    rResult,    \* the OperationResult the call resolved to
    \* ---- grep from the resolved backend output on (parseRipgrepOutput)
    pPc,        \* "idle" | "output" | "done"
    pOptions,   \* the options of the call
    pOutput,    \* rgOutput: the lines the backend wrote
    pResult,    \* the OperationResult the call resolved to
    \* ---- the host and the files
    fsOrder,    \* the order in which fs.readdir lists the entries of a directory
    host,       \* "posix" | "win32": the path module in use
    fContent,   \* the text of each regular file: absolute path -> string
    \* ---- one call of read, write, edit or list
    oPc,        \* "idle" | "done"
    oCall,      \* the operation called and its arguments
    oLog,       \* the fs calls of the operation that touch the disk, in order
    oResult,    \* the OperationResult the call resolved to
    \* ---- one call of the database select operation
    qPc,        \* "idle" | "sent" | "done"
    qQuery,     \* the query text of the call
    qPool,      \* the query texts handed to pool.query so far
    qResult     \* the OperationResult the call resolved to

mvars == <<mPc, mPattern, mRegex, mPath, mResult>>
gvars == <<fs, gPc, gCall, gWalked, gResult>>
rvars == <<rPc, rCall, rExamined, rSpawned, rProc, rStdout, rStderr, rClose,
           rPromise, rResult>>
pvars == <<pPc, pOptions, pOutput, pResult>>
evars == <<fsOrder, host, fContent>>
ovars == <<oPc, oCall, oLog, oResult>>
qvars == <<qPc, qQuery, qPool, qResult>>
vars == <<mvars, gvars, rvars, pvars, evars, ovars, qvars>>

(***************************************************************************)
(* Strings                                                                 *)
(***************************************************************************)

\* All strings over an alphabet, of length lo..hi.
StringsOver(chars, lo, hi) == UNION {[1..k -> chars] : k \in lo..hi}

\* The elements of a sequence.
Range(seq) == {seq[i] : i \in 1..Len(seq)}

\* String.prototype.startsWith
StartsWith(s, prefix) ==
    /\ Len(prefix) <= Len(s)
    /\ SubSeq(s, 1, Len(prefix)) = prefix

\* String.prototype.endsWith
EndsWith(s, suffix) ==
    /\ Len(suffix) <= Len(s)
    /\ SubSeq(s, Len(s) - Len(suffix) + 1, Len(s)) = suffix

RECURSIVE StrSplitFrom(_, _, _, _)
StrSplitFrom(s, sep, i, cur) ==
    IF i > Len(s) THEN <<cur>>
    ELSE IF s[i] = sep THEN <<cur>> \o StrSplitFrom(s, sep, i + 1, <<>>)
    ELSE StrSplitFrom(s, sep, i + 1, Append(cur, s[i]))

\* String.prototype.split on a one-character separator
StrSplit(s, sep) == StrSplitFrom(s, sep, 1, <<>>)

RECURSIVE StrJoin(_, _)
\* Array.prototype.join
StrJoin(parts, sep) ==
    IF parts = <<>> THEN <<>>
    ELSE IF Len(parts) = 1 THEN parts[1]
    ELSE parts[1] \o <<sep>> \o StrJoin(Tail(parts), sep)

\* UTF-16 code units of the characters the model uses (Array.prototype.sort
\* compares strings by code unit).
CharCode(c) ==
    CASE c = "\n" -> 10
      [] c = "*"  -> 42
      [] c = ","  -> 44
      [] c = "."  -> 46
      [] c = "/"  -> 47
      [] c = "2"  -> 50
      [] c = "?"  -> 63
      [] c = "["  -> 91
      [] c = "\\" -> 92
      [] c = "]"  -> 93
      [] c = "a"  -> 97
      [] c = "b"  -> 98
      [] c = "d"  -> 100
      [] c = "e"  -> 101
      [] c = "o"  -> 111
      [] c = "t"  -> 116
      [] c = "w"  -> 119
      [] c = "x"  -> 120
      [] c = "{"  -> 123
      [] c = "}"  -> 125

RECURSIVE StrLess(_, _)
\* a < b on strings, as the default comparator of Array.prototype.sort
StrLess(a, b) ==
    IF b = <<>> THEN FALSE
    ELSE IF a = <<>> THEN TRUE
    ELSE IF Head(a) = Head(b) THEN StrLess(Tail(a), Tail(b))
    ELSE CharCode(Head(a)) < CharCode(Head(b))

RECURSIVE SortStrings(_)
\* The sorted sequence of a set of strings.
SortStrings(S) ==
    IF S = {} THEN <<>>
    ELSE LET least == CHOOSE x \in S : \A y \in S \ {x} : StrLess(x, y)
         IN  <<least>> \o SortStrings(S \ {least})

\* Array.prototype.sort without a comparator
ArraySort(arr) ==
    LET idx == DOMAIN arr
        Before(i, j) == StrLess(arr[i], arr[j]) \/ (arr[i] = arr[j] /\ i < j)
        Rank(i) == Cardinality({j \in idx : Before(j, i)}) + 1
    IN  [k \in idx |-> arr[CHOOSE i \in idx : Rank(i) = k]]

(***************************************************************************)
(* Node's posix path module, as the code calls it                          *)
(***************************************************************************)

DotDot == <<".", ".">>

RECURSIVE NormalizeSegs(_, _, _)
\* normalizeString: resolves "." and ".." segments; above the root of an
\* absolute path ".." is dropped, in a relative path it is kept.
NormalizeSegs(segs, res, allowAboveRoot) ==
    IF segs = <<>> THEN res
    ELSE LET s == Head(segs)
             rest == Tail(segs)
         IN  IF s = <<>> \/ s = <<".">> THEN
                 NormalizeSegs(rest, res, allowAboveRoot)
             ELSE IF s = DotDot THEN
                 IF res # <<>> /\ res[Len(res)] # DotDot THEN
                     NormalizeSegs(rest, SubSeq(res, 1, Len(res) - 1), allowAboveRoot)
                 ELSE IF allowAboveRoot THEN
                     NormalizeSegs(rest, Append(res, s), allowAboveRoot)
                 ELSE NormalizeSegs(rest, res, allowAboveRoot)
             ELSE NormalizeSegs(rest, Append(res, s), allowAboveRoot)

IsAbsolute(p) == p # <<>> /\ p[1] = "/"

\* path.normalize
PathNormalize(p) ==
    IF p = <<>> THEN <<".">>
    ELSE LET abs == IsAbsolute(p)
             trailing == p[Len(p)] = "/"
             body == StrJoin(NormalizeSegs(StrSplit(p, "/"), <<>>, ~abs), "/")
         IN  IF body = <<>> THEN
                 (IF abs THEN <<"/">> ELSE IF trailing THEN <<".", "/">> ELSE <<".">>)
             ELSE (IF abs THEN <<"/">> ELSE <<>>) \o body
                  \o (IF trailing THEN <<"/">> ELSE <<>>)

\* path.join of two arguments: empty arguments are skipped
PathJoin(a, b) ==
    IF a = <<>> /\ b = <<>> THEN <<".">>
    ELSE IF a = <<>> THEN PathNormalize(b)
    ELSE IF b = <<>> THEN PathNormalize(a)
    ELSE PathNormalize(a \o <<"/">> \o b)

\* The segments of an absolute path after resolution.
ResolveSegs(p) == NormalizeSegs(StrSplit(p, "/"), <<>>, FALSE)

\* path.resolve of one absolute path: normalized, no trailing separator
PathResolve(p) == <<"/">> \o StrJoin(ResolveSegs(p), "/")

\* path.resolve(from, to): `to` wins when absolute, else it is appended
PathResolve2(from, to) ==
    IF IsAbsolute(to) THEN PathResolve(to)
    ELSE PathResolve(from \o <<"/">> \o to)

RECURSIVE CommonLen(_, _)
CommonLen(a, b) ==
    IF a = <<>> \/ b = <<>> THEN 0
    ELSE IF Head(a) = Head(b) THEN 1 + CommonLen(Tail(a), Tail(b))
    ELSE 0

\* path.relative of two absolute paths
PathRelative(from, to) ==
    LET f == ResolveSegs(from)
        t == ResolveSegs(to)
        n == CommonLen(f, t)
        ups == [i \in 1..(Len(f) - n) |-> DotDot]
    IN  StrJoin(ups \o SubSeq(t, n + 1, Len(t)), "/")

(***************************************************************************)
(* globToRegex and the regular expression it builds                        *)
(***************************************************************************)

\* A token of the regular-expression source, as globToRegex appends it:
\*   "optdirs" is "(?:.*/)?", "any" is ".*", "star" is "[^/]*", "one" is "[^/]",
\*   "esc" is a backslash followed by c, "raw" is c itself.
Tok(op, c) == [op |-> op, c |-> c]

\* The characters the class /[.+^${}()|[\]\\]/ of globToRegex escapes.
EscapedChars == {".", "+", "^", "$", "{", "}", "(", ")", "|", "[", "]", "\\"}

\* An escape class that lacks ".".
LiteralTokDotUnescaped(char) ==
    IF char \in EscapedChars \ {"."} THEN Tok("esc", char) ELSE Tok("raw", char)

\* The branch of globToRegex for a character that is neither "*" nor "?".
LiteralTok(char) ==
    IF char \in EscapedChars THEN Tok("esc", char) ELSE Tok("raw", char)

RECURSIVE GlobScan(_, _)
\* The scanning loop of globToRegex from (1-based) position i.
GlobScan(pattern, i) ==
    IF i > Len(pattern) THEN <<>>
    ELSE LET char == pattern[i] IN
         IF char = "*" THEN
             IF i + 1 <= Len(pattern) /\ pattern[i + 1] = "*" THEN
                 IF i + 2 <= Len(pattern) /\ pattern[i + 2] = "/" THEN
                     <<Tok("optdirs", "")>> \o GlobScan(pattern, i + 3)
                 ELSE <<Tok("any", "")>> \o GlobScan(pattern, i + 2)
             ELSE <<Tok("star", "")>> \o GlobScan(pattern, i + 1)
         ELSE IF char = "?" THEN <<Tok("one", "")>> \o GlobScan(pattern, i + 1)
         ELSE <<LiteralTok(char)>> \o GlobScan(pattern, i + 1)

\* globToRegex: on a POSIX host pattern.split(path.sep).join("/") changes
\* nothing; the result is anchored by ^ and $ (see RegExpTest).
globToRegex(pattern) == GlobScan(StrJoin(StrSplit(pattern, "/"), "/"), 1)

\* The characters "." of a JavaScript regular expression does not match.
LineTerminators == {"\n", "\r"}

\* What "." matches (no dotAll flag).
DotMatches(c) == c \notin LineTerminators

\* Characters that are syntax in a regular-expression source when unescaped.
RegexSyntaxChars ==
    {".", "+", "^", "$", "{", "}", "(", ")", "|", "[", "]", "\\", "*", "?"}

\* What "[^/]" matches: the class of "*" and of "?".
NotSlashAlsoSlash(c) == TRUE
NotSlash(c) == c # "/"

RECURSIVE RegexMatchFrom(_, _, _, _)
\* Whether tokens i.. of re match s from position j up to its end ($).
RegexMatchFrom(re, i, s, j) ==
    IF i > Len(re) THEN j > Len(s)
    ELSE LET t == re[i] IN
         CASE t.op = "optdirs" ->
                \* (?:.*/)? : nothing, or any run of "." ending in "/"
                \/ RegexMatchFrom(re, i + 1, s, j)
                \/ \E k \in j..Len(s) :
                      /\ s[k] = "/"
                      /\ \A m \in j..(k - 1) : DotMatches(s[m])
                      /\ RegexMatchFrom(re, i + 1, s, k + 1)
           [] t.op = "any" ->
                \E k \in j..(Len(s) + 1) :
                      /\ \A m \in j..(k - 1) : DotMatches(s[m])
                      /\ RegexMatchFrom(re, i + 1, s, k)
           [] t.op = "star" ->
                \E k \in j..(Len(s) + 1) :
                      /\ \A m \in j..(k - 1) : NotSlash(s[m])
                      /\ RegexMatchFrom(re, i + 1, s, k)
           [] t.op = "one" ->
                j <= Len(s) /\ NotSlash(s[j]) /\ RegexMatchFrom(re, i + 1, s, j + 1)
           [] t.op = "esc" ->
                j <= Len(s) /\ s[j] = t.c /\ RegexMatchFrom(re, i + 1, s, j + 1)
           [] t.op = "raw" ->
                /\ j <= Len(s)
                /\ (IF t.c = "." THEN DotMatches(s[j]) ELSE s[j] = t.c)
                /\ RegexMatchFrom(re, i + 1, s, j + 1)

\* The same expression without the leading "^".
RegExpTestUnanchored(re, s) == \E j \in 1..(Len(s) + 1) : RegexMatchFrom(re, 1, s, j)

\* new RegExp(`^${regexPattern}$`).test(s)
RegExpTest(re, s) == RegexMatchFrom(re, 1, s, 1)

(***************************************************************************)
(* The pattern compiler on its own: compile a pattern, test one path       *)
(***************************************************************************)

\* Bounds of the patterns and paths enumerated.
MaxPatLen == 3
MaxPathLen == 3

PatChars == {"a", ".", "/", "*", "?"}
PathChars == {"a", ".", "/", "\n"}

Str_a_ss_b == <<"a", "/", "*", "*", "/", "b">>
Str_ss_b == <<"*", "*", "/", "b">>
Str_ss_s == <<"*", "*", "/", "*">>
Str_ss_sdt == <<"*", "*", "/", "*", ".", "t">>
Str_aqdt == <<"a", "?", ".", "t">>
Str_ss_brace == <<"*", "*", "/", "*", ".", "{", "t", ",", "b", "}">>
Str_class == <<"[", "a", "b", "]">>

\* Patterns beyond the enumerated ones: those the tests and the README use.
NamedPatterns ==
    {Str_a_ss_b, Str_ss_b, Str_ss_s, Str_ss_sdt, Str_aqdt, Str_ss_brace, Str_class}

Patterns == StringsOver(PatChars, 1, MaxPatLen) \cup NamedPatterns

\* A normalized relative path: what path.relative(basePath, file) yields for
\* a file under basePath, separators already "/".
IsNormalizedRel(p) ==
    /\ p # <<>>
    /\ \A seg \in {StrSplit(p, "/")[i] : i \in 1..Len(StrSplit(p, "/"))} :
           seg # <<>> /\ seg # <<".">> /\ seg # DotDot

NamedPaths ==
    { <<"a", "/", "b">>, <<"a", "b">>, <<"a", "/", "x", "b">>,
      <<"a", "/", "x", "/", "b">>, <<"a", "/", "x", "/", "x", "/", "b">>,
      <<"a", "/", "b", "/", "x">>, <<"x", "/", "a", "/", "b">>,
      <<"a", "/", "x", "\n", "x", "/", "b">>,
      <<"b">>, <<"x", "b">>, <<"x", "/", "b">>, <<"x", "/", "x", "/", "b">>,
      <<"a", "b", ".", "t">>, <<"a", ".", "t">>, <<"a", "b", "b", ".", "t">>,
      <<"a", ".", "t", ".", "b">>, <<"x", "/", "a", ".", "t">>,
      <<"a", ".", "{", "t", ",", "b", "}">>, <<"x", "/", ".", "{", "t", ",", "b", "}">>,
      <<"a", ".", "b">>, <<"[", "a", "b", "]">>, <<"x", "/", "a", ".", "t", "b">> }

TestPaths ==
    {p \in StringsOver(PathChars, 1, MaxPathLen) : IsNormalizedRel(p)} \cup NamedPaths

MatchInit ==
    /\ mPc = "idle"
    /\ mPattern = <<>>
    /\ mRegex = <<>>
    /\ mPath = <<>>
    /\ mResult = FALSE

\* const regex = globToRegex(pattern)
Compile(pattern) ==
    /\ mPc = "idle"
    /\ mPattern' = pattern
    /\ mRegex' = globToRegex(pattern)
    /\ mPc' = "compiled"
    /\ UNCHANGED <<mPath, mResult>>

\* regex.test(normalizedPath)
Test(p) ==
    /\ mPc = "compiled"
    /\ mPath' = p
    /\ mResult' = RegExpTest(mRegex, p)
    /\ mPc' = "tested"
    /\ UNCHANGED <<mPattern, mRegex>>


(***************************************************************************)
(* The directory tree and the fs calls of glob                             *)
(***************************************************************************)

\* Depth of the chain of nested subdirectories below the workspace.
MaxDepth == 2

Root == <<"/">>
WS == <<"/", "w">>                  \* the workspace root
Sibling == <<"/", "w", "2">>        \* a sibling whose name starts with "w"

Name_a_t == <<"a", ".", "t">>
Name_b == <<"b">>
Name_d == <<"d">>
Name_dnl == <<"d", "\n">>           \* a directory name holding a line feed

Name_e == <<"e">>                   \* a second subdirectory of the workspace
Name_o_t == <<"o", ".", "t">>       \* an entry that is no file and no directory

FileNames == {Name_a_t, Name_b}
FirstDirNames == {Name_d, Name_dnl}

\* The workspace argument: with and without a trailing separator.
Workspaces == {WS, WS \o <<"/">>}

\* The directory k levels below the workspace (first subdirectory `first`,
\* every deeper one named "d").
RECURSIVE ChainDir(_, _)
ChainDir(first, k) ==
    IF k = 0 THEN WS
    ELSE IF k = 1 THEN WS \o <<"/">> \o first
    ELSE ChainDir(first, k - 1) \o <<"/">> \o Name_d

\* A tree: the files of each level of the chain; the sibling /w2 holds a.t.
\* The files a directory may hold: any at the workspace root; below it "b"
\* comes only beside "a.t".
LevelFiles(k) == IF k = 1 THEN SUBSET FileNames ELSE (SUBSET FileNames) \ {{Name_b}}

\* The kinds of an entry: a regular file, a directory, a directory that
\* fs.readdir cannot list (EACCES), and anything else (a symbolic link, a
\* socket, a FIFO: Dirent.isFile() and Dirent.isDirectory() are both false).
Kinds == {"file", "dir", "locked", "other"}

IsDirKind(kind) == kind \in {"dir", "locked"}

\* A configuration: the files of the levels, whether every level also holds
\* the entry "o.t" of kind "other", and the levels whose directory cannot be
\* listed (level 0 is the workspace root).
TreeConfig(first, levels, other, locked) ==
    [first |-> first, levels |-> levels, other |-> other, locked |-> locked]

\* The chains with every file at every level.
FullLevels == {[k \in 1..n |-> FileNames] : n \in 1..(MaxDepth + 1)}

TreeConfigs ==
    {TreeConfig(f, l, FALSE, {}) :
        f \in FirstDirNames,
        l \in {x \in UNION {[1..n -> SUBSET FileNames] : n \in 1..(MaxDepth + 1)} :
                  \A k \in DOMAIN x : x[k] \in LevelFiles(k)}}
    \cup {TreeConfig(Name_d, l, TRUE, {}) : l \in FullLevels}
    \cup UNION {{TreeConfig(Name_d, l, FALSE, {k}) : k \in 0..(Len(l) - 1)} : l \in FullLevels}

\* A tree with a directory that cannot be listed also holds the subdirectory
\* "e" of the workspace with the file e/a.t.
TreeNodes(c) ==
    {<<Root, "dir">>, <<Sibling, "dir">>, <<Sibling \o <<"/">> \o Name_a_t, "file">>}
    \cup {<<ChainDir(c.first, k - 1), IF (k - 1) \in c.locked THEN "locked" ELSE "dir">>
             : k \in 1..Len(c.levels)}
    \cup UNION {{<<ChainDir(c.first, k - 1) \o <<"/">> \o n, "file">> : n \in c.levels[k]}
                : k \in 1..Len(c.levels)}
    \cup (IF c.other
          THEN {<<ChainDir(c.first, k - 1) \o <<"/">> \o Name_o_t, "other">>
                  : k \in 1..Len(c.levels)}
          ELSE {})
    \cup (IF c.locked # {}
          THEN {<<WS \o <<"/">> \o Name_e, "dir">>,
                <<WS \o <<"/">> \o Name_e \o <<"/">> \o Name_a_t, "file">>}
          ELSE {})

MkTree(c) ==
    [p \in {n[1] : n \in TreeNodes(c)} |->
        (CHOOSE n \in TreeNodes(c) : n[1] = p)[2]]

\* Trees in which the first subdirectory "d" is absent have one spelling.
Trees == {MkTree(c) : c \in {x \in TreeConfigs : Len(x.levels) > 1 \/ x.first = Name_d}}

\* The parent directory and the last segment of a resolved absolute path.
Dirname(p) ==
    LET segs == ResolveSegs(p)
    IN  <<"/">> \o StrJoin(SubSeq(segs, 1, Len(segs) - 1), "/")

Basename(p) ==
    LET segs == ResolveSegs(p) IN segs[Len(segs)]

\* The proper ancestors of a resolved absolute path.
Ancestors(p) ==
    LET segs == ResolveSegs(p)
    IN  {<<"/">> \o StrJoin(SubSeq(segs, 1, k), "/") : k \in 0..(Len(segs) - 1)}

\* fs.stat(p): "dir" when stat.isDirectory(), else the kind of the entry, or
\* the errno of the failure.  A directory that cannot be listed can still be
\* searched, so stat reaches the entries below it.
Stat(tree, p) ==
    LET r == PathResolve(p)
        trailing == p[Len(p)] = "/" /\ r # Root
    IN  IF r \in DOMAIN tree THEN
            (IF IsDirKind(tree[r]) THEN "dir"
             ELSE IF trailing THEN "ENOTDIR" ELSE tree[r])
        ELSE IF \E q \in Ancestors(r) : q \in DOMAIN tree /\ ~IsDirKind(tree[q])
             THEN "ENOTDIR"
        ELSE "ENOENT"

\* fs.readdir(dirPath) rejects
ReaddirFails(tree, dirPath) == tree[PathResolve(dirPath)] = "locked"

\* The orders in which a directory is listed: by name, by name backwards,
\* and by name from the second entry on with the first entry last.
ListingOrders == {"asc", "desc", "rot"}

Listed(names, order) ==
    LET n == Len(names)
    IN  IF order = "desc" THEN [i \in 1..n |-> names[n + 1 - i]]
        ELSE IF order = "rot" THEN [i \in 1..n |-> names[(i % n) + 1]]
        ELSE names

\* fs.readdir(dirPath, {withFileTypes: true}): the entries of a directory,
\* in the order the filesystem lists them.
Readdir(tree, dirPath) ==
    LET r == PathResolve(dirPath)
    IN  Listed(SortStrings({Basename(q) : q \in {x \in DOMAIN tree : x # Root /\ Dirname(x) = r}}),
               fsOrder)

\* Whether a listing fails somewhere in the walk from dirPath.
ListingFailsBelow(tree, dirPath) ==
    \E q \in DOMAIN tree :
        /\ tree[q] = "locked"
        /\ Len(ResolveSegs(dirPath)) <= Len(ResolveSegs(q))
        /\ SubSeq(ResolveSegs(q), 1, Len(ResolveSegs(dirPath))) = ResolveSegs(dirPath)

RECURSIVE collectFilesWithDirs(_, _)
\* A walk that also yields the directories it enters.
collectFilesWithDirs(tree, dirPath) ==
    LET entries == Readdir(tree, dirPath)
        Visit(name) ==
            LET fullPath == PathJoin(dirPath, name)
                kind == tree[PathResolve(fullPath)]
            IN  IF IsDirKind(kind) THEN <<fullPath>> \o collectFilesWithDirs(tree, fullPath)
                ELSE IF kind = "file" THEN <<fullPath>>
                ELSE <<>>
        Loop[i \in 0..Len(entries)] ==
            IF i = 0 THEN <<>> ELSE Loop[i - 1] \o Visit(entries[i])
    IN  IF ReaddirFails(tree, dirPath) THEN <<>> ELSE Loop[Len(entries)]

RECURSIVE collectFilesOneCatch(_, _)
\* A walk with one catch around the whole recursion: a listing that fails
\* anywhere below loses every file collected.
collectFilesOneCatch(tree, dirPath) ==
    LET entries == Readdir(tree, dirPath)
        Visit(name) ==
            LET fullPath == PathJoin(dirPath, name)
                kind == tree[PathResolve(fullPath)]
            IN  IF IsDirKind(kind) THEN collectFilesOneCatch(tree, fullPath)
                ELSE IF kind = "file" THEN <<fullPath>>
                ELSE <<>>
        Loop[i \in 0..Len(entries)] ==
            IF i = 0 THEN <<>> ELSE Loop[i - 1] \o Visit(entries[i])
    IN  IF ListingFailsBelow(tree, dirPath) THEN <<>> ELSE Loop[Len(entries)]

RECURSIVE collectFiles(_, _)
\* collectFiles: the regular files below dirPath, in walk order.
collectFiles(tree, dirPath) ==
    LET entries == Readdir(tree, dirPath)
        Visit(name) ==
            LET fullPath == PathJoin(dirPath, name)
                kind == tree[PathResolve(fullPath)]
            IN  IF IsDirKind(kind) THEN collectFiles(tree, fullPath)   \* entry.isDirectory()
                ELSE IF kind = "file" THEN <<fullPath>>                \* entry.isFile()
                ELSE <<>>
        Loop[i \in 0..Len(entries)] ==
            IF i = 0 THEN <<>> ELSE Loop[i - 1] \o Visit(entries[i])
    IN  IF ReaddirFails(tree, dirPath) THEN <<>>     \* the catch: nothing collected
        ELSE Loop[Len(entries)]

RECURSIVE walkedDirs(_, _)
\* The directories collectFiles hands to fs.readdir.
walkedDirs(tree, dirPath) ==
    {dirPath} \cup
    (IF ReaddirFails(tree, dirPath) THEN {}
     ELSE UNION {walkedDirs(tree, PathJoin(dirPath, n)) :
                   n \in {Basename(q) : q \in {x \in DOMAIN tree :
                             /\ x # Root
                             /\ Dirname(x) = PathResolve(dirPath)
                             /\ IsDirKind(tree[x])}}})


(***************************************************************************)
(* glob                                                                    *)
(***************************************************************************)

Ok(data) == [success |-> TRUE, data |-> data]
Fail(msg, arg) == [success |-> FALSE, error |-> [msg |-> msg, arg |-> arg]]

ErrPatternRequired == "Pattern is required"
ErrTraversal == "Path traversal detected: path must be within workspace"
ErrNotADirectory == "Not a directory: "
ErrDirNotFound == "Directory not found: "
ErrStatThrew == "ENOTDIR: not a directory, stat "

\* const basePath = searchPath ? path.join(workspace, searchPath) : workspace
BasePath(workspace, searchPath) ==
    IF searchPath # <<>> THEN PathJoin(workspace, searchPath) ELSE workspace

\* normalizedBasePath.startsWith(normalizedWorkspace)
GlobWithinWorkspace(basePath, workspace) ==
    StartsWith(PathNormalize(basePath), PathNormalize(workspace))

\* ${searchPath || "."}
OrDot(searchPath) == IF searchPath # <<>> THEN searchPath ELSE <<".">>

\* path.sep
Hosts == {"posix", "win32"}
PathSep == IF host = "win32" THEN "\\" ELSE "/"

\* A path as the host's path module writes it: its segments joined by
\* path.sep.
HostPath(p) == [i \in DOMAIN p |-> IF p[i] = "/" THEN PathSep ELSE p[i]]

\* A path as the host's path module reads it: on win32 "\\" separates
\* segments as "/" does.
FromHost(p) ==
    [i \in DOMAIN p |-> IF host = "win32" /\ p[i] = "\\" THEN "/" ELSE p[i]]

\* path.relative as the host's path module returns it
HostRelative(from, to) == HostPath(PathRelative(from, to))

\* The path the pattern is tested against: relative to the search directory,
\* separators normalized to "/".
RelativeToSearch(basePath, file) ==
    StrJoin(StrSplit(HostRelative(basePath, file), PathSep), "/")

\* Results relative to the search directory instead of the workspace.
ResultPathFromBase(workspace, basePath, file) == HostRelative(basePath, file)

\* matchedFiles.map((file) => path.relative(workspace, file))
ResultPath(workspace, basePath, file) == HostRelative(workspace, file)

\* The results in the order of the walk.
GlobResultsUnsorted(tree, workspace, basePath, pattern) ==
    LET allFiles == collectFiles(tree, basePath)
        regex == globToRegex(pattern)
        matchedFiles == SelectSeq(allFiles,
                            LAMBDA file : RegExpTest(regex, RelativeToSearch(basePath, file)))
    IN  [i \in 1..Len(matchedFiles) |-> ResultPath(workspace, basePath, matchedFiles[i])]

\* allFiles.filter(...).map(...), then results.sort()
GlobResults(tree, workspace, basePath, pattern) ==
    LET allFiles == collectFiles(tree, basePath)
        regex == globToRegex(pattern)
        matchedFiles == SelectSeq(allFiles,
                            LAMBDA file : RegExpTest(regex, RelativeToSearch(basePath, file)))
        results == [i \in 1..Len(matchedFiles) |->
                        ResultPath(workspace, basePath, matchedFiles[i])]
    IN  ArraySort(results)

\* The whole call: the result it resolves to and the directories it walked.
globRun(tree, workspace, pattern, searchPath) ==
    LET basePath == BasePath(workspace, searchPath)
        stat == Stat(tree, basePath)
        NoWalk(r) == [result |-> r, walked |-> {}]
    IN  IF pattern = <<>> THEN NoWalk(Fail(ErrPatternRequired, <<>>))
        ELSE IF ~GlobWithinWorkspace(basePath, workspace) THEN
            NoWalk(Fail(ErrTraversal, <<>>))
        ELSE IF stat = "ENOENT" THEN NoWalk(Fail(ErrDirNotFound, OrDot(searchPath)))
        ELSE IF stat = "ENOTDIR" THEN NoWalk(Fail(ErrStatThrew, basePath))
        ELSE IF stat # "dir" THEN NoWalk(Fail(ErrNotADirectory, OrDot(searchPath)))
        ELSE [result |-> Ok(GlobResults(tree, workspace, basePath, pattern)),
              walked |-> walkedDirs(tree, basePath)]

Str_s == <<"*">>
Str_sdt == <<"*", ".", "t">>
Str_d_a_t == Name_d \o <<"/">> \o Name_a_t
Str_dnl_a_t == Name_dnl \o <<"/">> \o Name_a_t

\* The patterns of the calls; <<>> is the empty (or missing) pattern.
GlobPatterns ==
    {<<>>, Str_s, Str_ss_s, Str_ss_sdt, Str_sdt, Name_a_t, Name_b, Str_d_a_t,
     Str_dnl_a_t, <<"a", "?", "t">>, <<"a">>, Name_d}

\* The searchPath arguments; <<>> is "no searchPath".
SearchPaths ==
    {<<>>, <<".">>, Name_d, Name_d \o <<"/">>, Name_dnl, Name_d \o <<"/">> \o Name_d,
     DotDot, DotDot \o <<"/", "w", "2">>, DotDot \o <<"/", "w">>,
     Name_d \o <<"/">> \o DotDot, Name_a_t, Name_a_t \o <<"/">>, <<"x">>}

NoCall == [workspace |-> <<>>, pattern |-> <<>>, searchPath |-> <<>>]
NoResult == [success |-> FALSE, error |-> [msg |-> "none", arg |-> <<>>]]

GlobInit ==
    /\ fs \in Trees
    /\ gPc = "idle"
    /\ gCall = NoCall
    /\ gWalked = {}
    /\ gResult = NoResult

\* glob(workspace)(pattern, searchPath), run to completion on the tree
Glob(workspace, pattern, searchPath) ==
    /\ gPc = "idle"
    /\ gCall' = [workspace |-> workspace, pattern |-> pattern, searchPath |-> searchPath]
    /\ LET run == globRun(fs, workspace, pattern, searchPath)
       IN  /\ gResult' = run.result
           /\ gWalked' = run.walked
    /\ gPc' = "done"
    /\ UNCHANGED fs

\* The caller takes the result; the next call starts on the same tree.
GlobReturn ==
    /\ gPc = "done"
    /\ gPc' = "idle"
    /\ gCall' = NoCall
    /\ gWalked' = {}
    /\ gResult' = NoResult
    /\ UNCHANGED fs

(***************************************************************************)
(* grep: validation, the ripgrep child process, parsing of its output      *)
(***************************************************************************)

\* Bounds of the regular expressions and of the backend output enumerated.
MaxGrepPatLen == 2
MaxLines == 2

GrepPatChars == {"a", "[", "("}

\* options.pattern; <<>> is the empty (or missing) pattern.
GrepPatterns == StringsOver(GrepPatChars, 0, MaxGrepPatLen) \cup {<<"(", "a", ")">>}

RECURSIVE RegexSyntaxScan(_, _, _, _, _)
\* The syntax check of new RegExp(pattern) on the characters enumerated:
\* groups must balance, a character class must be closed, a quantifier needs
\* something to repeat, a trailing backslash is an error.
RegexSyntaxScan(p, i, depth, inClass, canRepeat) ==
    IF i > Len(p) THEN depth = 0 /\ ~inClass
    ELSE LET c == p[i] IN
         IF c = "\\" THEN
             i < Len(p) /\ RegexSyntaxScan(p, i + 2, depth, inClass, TRUE)
         ELSE IF inClass THEN
             RegexSyntaxScan(p, i + 1, depth, c # "]", TRUE)
         ELSE IF c = "[" THEN RegexSyntaxScan(p, i + 1, depth, TRUE, FALSE)
         ELSE IF c = "(" THEN RegexSyntaxScan(p, i + 1, depth + 1, FALSE, FALSE)
         ELSE IF c = ")" THEN
             depth > 0 /\ RegexSyntaxScan(p, i + 1, depth - 1, FALSE, TRUE)
         ELSE IF c \in {"*", "+", "?"} THEN
             canRepeat /\ RegexSyntaxScan(p, i + 1, depth, FALSE, FALSE)
         ELSE RegexSyntaxScan(p, i + 1, depth, FALSE, TRUE)

\* new RegExp(pattern) does not throw
IsValidRegex(pattern) == RegexSyntaxScan(pattern, 1, 0, FALSE, FALSE)

ErrGrepPatternRequired == "pattern is required"
ErrInvalidRegex == "Invalid regex pattern: "
ErrSearchPath == "Search path must be within workspace"
ErrNotInstalled == "ripgrep (rg) is not installed or not in PATH"
ErrSpawn == "spawn rg "
ErrExitCode == "ripgrep exited with code "

OutputModes == {"default", "content", "files_with_matches", "count"}

\* const { pattern, output_mode = 'files_with_matches' } = options
OutputMode(options) ==
    IF options.output_mode = "default" THEN "files_with_matches"
    ELSE options.output_mode

\* options.path; <<>> is "no path".
GrepPaths ==
    {<<>>, Name_d, DotDot, DotDot \o <<"/", "w", "2">>, DotDot \o <<"/", "w">>,
     Name_d \o <<"/">> \o DotDot}

\* const searchPath = options.path ? path.join(workspace, options.path) : workspace
GrepSearchPath(workspace, options) ==
    IF options.path # <<>> THEN PathJoin(workspace, options.path) ELSE workspace

\* resolvedSearchPath.startsWith(resolvedWorkspace)
GrepWithinWorkspace(searchPath, workspace) ==
    StartsWith(PathResolve(searchPath), PathResolve(workspace))

\* The same checks with the search path examined before the pattern.
grepStartPathFirst(workspace, options) ==
    LET searchPath == GrepSearchPath(workspace, options)
        Return(r, ex) == [returned |-> TRUE, result |-> r, examined |-> ex,
                          spawn |-> <<>>]
    IN  IF ~GrepWithinWorkspace(searchPath, workspace) THEN
            Return(Fail(ErrSearchPath, <<>>), TRUE)
        ELSE IF options.pattern = <<>> THEN
            Return(Fail(ErrGrepPatternRequired, <<>>), TRUE)
        ELSE IF ~IsValidRegex(options.pattern) THEN
            Return(Fail(ErrInvalidRegex, options.pattern), TRUE)
        ELSE [returned |-> FALSE, result |-> NoResult, examined |-> TRUE,
              spawn |-> <<searchPath>>]

\* The synchronous part of grep, up to the await: the error it returns, or the
\* spawn it makes; `examined` tells whether the search path was computed.
grepStart(workspace, options) ==
    LET searchPath == GrepSearchPath(workspace, options)
        Return(r, ex) == [returned |-> TRUE, result |-> r, examined |-> ex,
                          spawn |-> <<>>]
    IN  IF options.pattern = <<>> THEN
            Return(Fail(ErrGrepPatternRequired, <<>>), FALSE)
        ELSE IF ~IsValidRegex(options.pattern) THEN
            Return(Fail(ErrInvalidRegex, options.pattern), FALSE)
        ELSE IF ~GrepWithinWorkspace(searchPath, workspace) THEN
            Return(Fail(ErrSearchPath, <<>>), TRUE)
        ELSE [returned |-> FALSE, result |-> NoResult, examined |-> TRUE,
              spawn |-> <<searchPath>>]

\* ---- the backend's output lines

\* A line of stdout.  Plain lines (files_with_matches, count) carry text; JSON
\* lines (content) carry a type and the fields of its event.
Line(type, text, path, n, subs) ==
    [type |-> type, text |-> text, path |-> path, n |-> n, subs |-> subs]

PlainLine(text) == Line("plain", text, <<>>, 0, <<>>)
BeginLine(path) == Line("begin", <<>>, path, 0, <<>>)
MatchLine(n, text, subs) == Line("match", text, <<>>, n, subs)
ContextLine(n, text) == Line("context", text, <<>>, n, <<>>)
SummaryLine == Line("summary", <<>>, <<>>, 0, <<>>)
BadLine == Line("bad", <<>>, <<>>, 0, <<>>)
BlankLine == PlainLine(<<>>)

\* A begin event whose data.path carries no `text` (ripgrep writes
\* {"bytes": ...} for a file name that is not valid UTF-8): JSON.parse
\* succeeds and path.relative(workspace, undefined) throws.
BadBeginLine == Line("badbegin", <<>>, <<>>, 0, <<>>)

File_a_t == WS \o <<"/">> \o Name_a_t
File_d_b == WS \o <<"/">> \o Name_d \o <<"/">> \o Name_b

\* Match events: (line_number, lines.text, the starts of the submatches).
Match_1 == MatchLine(1, <<"a", " ", "\n">>, <<>>)
Match_2 == MatchLine(2, <<" ", "a", "a", "\n">>, <<1, 2>>)
Context_3 == ContextLine(3, <<"b", "\n">>)

\* Lines of --count output: path:N; a path holding a colon; a line without
\* a colon; suffixes that are no count.
Count_a_2 == PlainLine(File_a_t \o <<":", "2">>)
Count_colon_1 == PlainLine(WS \o <<"/", "d", ":", "b", ":", "1">>)
Count_nocolon == PlainLine(<<"x">>)
Count_a_x == PlainLine(File_a_t \o <<":", "x">>)
Count_a_0 == PlainLine(File_a_t \o <<":", "0">>)
Count_a_2x == PlainLine(File_a_t \o <<":", "2", "x">>)

\* What the backend may write, by output mode.
BackendLines(mode) ==
    CASE mode = "files_with_matches" -> {PlainLine(File_a_t), PlainLine(File_d_b), BlankLine}
      [] mode = "count" ->
            {Count_a_2, Count_colon_1, Count_nocolon, Count_a_x, Count_a_0, Count_a_2x}
      [] mode = "content" ->
            {BeginLine(File_a_t), BeginLine(File_d_b), BadBeginLine, Match_1, Match_2,
             Context_3, SummaryLine, BadLine}

\* A line that reports a match, as opposed to the closing summary.
IsResultLine(line) == line.type \notin {"summary"} /\ line # BlankLine

\* output.trim().split("\n").filter(line => line.length > 0)
OutputLines(output) == SelectSeq(output, LAMBDA line : line # BlankLine)

Whitespace == {" ", "\t", "\n", "\r"}

RECURSIVE TrimEnd(_)
\* String.prototype.trimEnd
TrimEnd(s) ==
    IF s # <<>> /\ s[Len(s)] \in Whitespace THEN TrimEnd(SubSeq(s, 1, Len(s) - 1))
    ELSE s

RECURSIVE TrimStart(_)
TrimStart(s) ==
    IF s # <<>> /\ Head(s) \in Whitespace THEN TrimStart(Tail(s)) ELSE s

\* String.prototype.trim
Trim(s) == TrimEnd(TrimStart(s))

\* String.prototype.lastIndexOf (0-based, -1 when absent)
LastIndexOf(s, c) ==
    IF \E i \in 1..Len(s) : s[i] = c
    THEN (CHOOSE i \in 1..Len(s) : s[i] = c /\ \A j \in (i + 1)..Len(s) : s[j] # c) - 1
    ELSE -1

Digits == {"0", "1", "2", "3", "4", "5", "6", "7", "8", "9"}

DigitVal(c) ==
    CASE c = "0" -> 0 [] c = "1" -> 1 [] c = "2" -> 2 [] c = "3" -> 3 [] c = "4" -> 4
      [] c = "5" -> 5 [] c = "6" -> 6 [] c = "7" -> 7 [] c = "8" -> 8 [] c = "9" -> 9

RECURSIVE DigitsValue(_, _)
\* The value of the longest prefix of digits, continuing from acc.
DigitsValue(s, acc) ==
    IF s = <<>> \/ Head(s) \notin Digits THEN acc
    ELSE DigitsValue(Tail(s), 10 * acc + DigitVal(Head(s)))

\* parseInt(s, 10): leading whitespace, an optional sign, then the longest
\* prefix of digits; NaN when there is none.
ParseInt(s) ==
    LET t == TrimStart(s)
        signed == t # <<>> /\ Head(t) \in {"-", "+"}
        body == IF signed THEN Tail(t) ELSE t
        value == DigitsValue(body, 0)
    IN  IF body = <<>> \/ Head(body) \notin Digits THEN [nan |-> TRUE, value |-> 0]
        ELSE [nan |-> FALSE, value |-> IF signed /\ Head(t) = "-" THEN -value ELSE value]

\* path.relative(workspace, path.resolve(workspace, line))
RelativeInWorkspace(workspace, p) ==
    PathRelative(workspace, PathResolve2(workspace, p))

\* parseFilesWithMatches
parseFilesWithMatches(lines, workspace) ==
    LET kept == SelectSeq(lines, LAMBDA line : Trim(line.text) # <<>>)
    IN  [mode |-> "files_with_matches",
         data |-> [i \in 1..Len(kept) |-> RelativeInWorkspace(workspace, kept[i].text)]]

\* One iteration of the loop of parseCountOutput: the entries a line adds.
CountEntry(line, workspace) ==
    LET lastColonIndex == LastIndexOf(line, ":")
        filePath == SubSeq(line, 1, lastColonIndex)
        countStr == SubSeq(line, lastColonIndex + 2, Len(line))
        count == ParseInt(countStr)
    IN  IF lastColonIndex = -1 THEN <<>>
        ELSE IF count.nan THEN <<>>
        ELSE <<[path |-> RelativeInWorkspace(workspace, filePath), count |-> count.value]>>

RECURSIVE CountEntries(_, _)
CountEntries(lines, workspace) ==
    IF lines = <<>> THEN <<>>
    ELSE CountEntry(Head(lines).text, workspace) \o CountEntries(Tail(lines), workspace)

\* parseCountOutput
parseCountOutput(lines, workspace) ==
    [mode |-> "count", data |-> CountEntries(lines, workspace)]

\* The state of the loop of parseContentOutput: fileMap as the sequence of
\* its entries in insertion order, and currentFile (null, or a path).
NoFile == [isNull |-> TRUE, path |-> <<>>]
SomeFile(p) == [isNull |-> FALSE, path |-> p]

\* `&& currentFile`: null and the empty string are falsy
Truthy(currentFile) == ~currentFile.isNull /\ currentFile.path # <<>>

MapHas(fileMap, key) == \E i \in 1..Len(fileMap) : fileMap[i].path = key

MapPush(fileMap, key, match) ==
    [i \in 1..Len(fileMap) |->
        IF fileMap[i].path = key
        THEN [path |-> key, matches |-> Append(fileMap[i].matches, match)]
        ELSE fileMap[i]]

\* An optional field of an object: absent, or present with a value.
Absent == <<>>
Present(v) == <<v>>

\* A GrepMatch: line and content, and the optional column, beforeContext and
\* afterContext.
GrepMatch(line, content, column, beforeContext, afterContext) ==
    [line |-> line, content |-> content, column |-> column,
     beforeContext |-> beforeContext, afterContext |-> afterContext]

\* The Match record of a match event; the column is left out only when
\* options["-n"] === false.  No context is ever attached.
MatchRecord(line, options) ==
    LET column == IF Len(line.subs) > 0 THEN line.subs[1] + 1 ELSE 1
    IN  GrepMatch(line.n, TrimEnd(line.text),
                  IF options.n # "false" THEN Present(column) ELSE Absent,
                  Absent, Absent)

\* An iteration in which a line that cannot be parsed closes the current file.
ContentStepBadCloses(st, line, workspace, options) ==
    CASE line.type \in {"bad", "badbegin"} -> [st EXCEPT !.currentFile = NoFile]
      [] line.type = "begin" ->
            LET cur == PathRelative(workspace, line.path)
            IN  [currentFile |-> SomeFile(cur),
                 fileMap |-> IF MapHas(st.fileMap, cur) THEN st.fileMap
                             ELSE Append(st.fileMap, [path |-> cur, matches |-> <<>>])]
      [] line.type = "match" /\ Truthy(st.currentFile) ->
            [st EXCEPT !.fileMap = MapPush(st.fileMap, st.currentFile.path,
                                           MatchRecord(line, options))]
      [] OTHER -> st

\* One iteration of the loop of parseContentOutput.  A line on which the body
\* of the try throws (JSON.parse, or path.relative on a begin event without
\* path text) leaves currentFile and fileMap as they were.
ContentStep(st, line, workspace, options) ==
    CASE line.type \in {"bad", "badbegin"} -> st
      [] line.type = "begin" ->
            LET cur == PathRelative(workspace, line.path)
            IN  [currentFile |-> SomeFile(cur),
                 fileMap |-> IF MapHas(st.fileMap, cur) THEN st.fileMap
                             ELSE Append(st.fileMap, [path |-> cur, matches |-> <<>>])]
      [] line.type = "match" /\ Truthy(st.currentFile) ->
            [st EXCEPT !.fileMap = MapPush(st.fileMap, st.currentFile.path,
                                           MatchRecord(line, options))]
      [] OTHER -> st      \* context (kept in no result), end, summary

RECURSIVE ContentLoop(_, _, _, _)
ContentLoop(st, lines, workspace, options) ==
    IF lines = <<>> THEN st
    ELSE ContentLoop(ContentStep(st, Head(lines), workspace, options), Tail(lines),
                     workspace, options)

\* The groups of fileMap that hold a match, in insertion order.
ContentGroups(fileMap) == SelectSeq(fileMap, LAMBDA e : Len(e.matches) > 0)

\* parseContentOutput
parseContentOutput(lines, workspace, options) ==
    LET final == ContentLoop([currentFile |-> NoFile, fileMap |-> <<>>], lines,
                             workspace, options)
    IN  [mode |-> "content", data |-> ContentGroups(final.fileMap)]

\* parseRipgrepOutput
parseRipgrepOutput(output, outputMode, workspace, options) ==
    LET lines == OutputLines(output)
    IN  IF outputMode = "files_with_matches" THEN parseFilesWithMatches(lines, workspace)
        ELSE IF outputMode = "count" THEN parseCountOutput(lines, workspace)
        ELSE parseContentOutput(lines, workspace, options)

\* ---- the arguments handed to ripgrep and what it writes under them

\* GrepOptions: pattern, path, output_mode, "-n" (unset, true or false),
\* head_limit and the context windows "-B", "-A", "-C" (absent, or a number).
Options(pattern, path, mode, n, head_limit, B, A, C) ==
    [pattern |-> pattern, path |-> path, output_mode |-> mode, n |-> n,
     head_limit |-> head_limit, B |-> B, A |-> A, C |-> C]

Defaults(pattern, path, mode) ==
    Options(pattern, path, mode, "unset", Absent, Absent, Absent, Absent)

\* buildRipgrepArgs: the flags passed, each absent or with its value.
buildRipgrepArgs(options, outputMode) ==
    [json |-> outputMode # "count" /\ outputMode # "files_with_matches",
     C |-> options.C,
     B |-> IF options.C # Absent THEN Absent ELSE options.B,
     A |-> IF options.C # Absent THEN Absent ELSE options.A,
     maxCount |-> options.head_limit,
     filesWithMatches |-> outputMode = "files_with_matches",
     count |-> outputMode # "files_with_matches" /\ outputMode = "count"]

\* The index of the line that opened the file being reported (0: none yet).
BlockStart(output) ==
    LET begins == {i \in 1..Len(output) : output[i].type \in {"begin", "badbegin"}}
    IN  IF begins = {} THEN 0 ELSE CHOOSE i \in begins : \A j \in begins : j <= i

\* The match events of the file being reported.
BlockMatches(output) ==
    Cardinality({i \in (BlockStart(output) + 1)..Len(output) : output[i].type = "match"})

\* What ripgrep may write next under the arguments it got.  With --json: a
\* file is begun once, match and context events come inside the report of a
\* file, context events only with a context window, at most --max-count
\* match events per file, and nothing follows the summary.
BackendMayWrite(args, output, line) ==
    IF ~args.json THEN line \in BackendLines(IF args.count THEN "count"
                                              ELSE "files_with_matches")
    ELSE /\ line \in BackendLines("content")
         /\ \A i \in 1..Len(output) : output[i].type # "summary"
         /\ line.type = "begin" => \A i \in 1..Len(output) : output[i] # line
         /\ line.type \in {"match", "context"} => BlockStart(output) > 0
         /\ line.type = "context" => (args.C \o args.B \o args.A) # <<>>
         /\ (line.type = "match" /\ args.maxCount # Absent) =>
                BlockMatches(output) < args.maxCount[1]

\* ---- the promise of executeRipgrep and the child's events

MaxErrChunks == 1

NoError == [msg |-> "", arg |-> <<>>]
Pending == [state |-> "pending", value |-> <<>>, error |-> NoError]
Resolved(v) == [state |-> "resolved", value |-> v, error |-> NoError]
Rejected(e) == [state |-> "rejected", value |-> <<>>, error |-> e]

\* A promise that takes the outcome of every call of resolve and reject.
SettleLast(promise, outcome) == outcome

\* resolve and reject settle a promise once; later calls change nothing.
Settle(promise, outcome) == IF promise.state = "pending" THEN outcome ELSE promise

\* Exit codes of a 'close' event: "null" when a signal ended the process,
\* "-2" (the errno) after a spawn that failed.
ExitCodes == {"0", "1", "2", "null"}

SpawnOutcomes == {"ok", "ENOENT", "EACCES"}

\* A 'close' handler that takes every exit code for a success.
OnCloseAnyCode(promise, code, stdout, stderr) ==
    IF code # "null" THEN Settle(promise, Resolved(stdout))
    ELSE Settle(promise, Rejected(IF stderr # <<>> THEN [msg |-> "", arg |-> stderr]
                                  ELSE [msg |-> ErrExitCode, arg |-> <<code>>]))

\* The 'close' handler: code 0 or 1 resolves with stdout, any other rejects
\* with stderr, or with the exit code when stderr is empty.
OnClose(promise, code, stdout, stderr) ==
    IF code = "0" \/ code = "1" THEN Settle(promise, Resolved(stdout))
    ELSE Settle(promise, Rejected(IF stderr # <<>> THEN [msg |-> "", arg |-> stderr]
                                  ELSE [msg |-> ErrExitCode, arg |-> <<code>>]))

\* The 'error' handler.
OnError(promise, errno) ==
    IF errno = "ENOENT" THEN Settle(promise, Rejected([msg |-> ErrNotInstalled, arg |-> <<>>]))
    ELSE Settle(promise, Rejected([msg |-> ErrSpawn, arg |-> <<errno>>]))

Str_a == <<"a">>

\* The option sets of the calls whose backend output is parsed: every output
\* mode; in content mode "-n" given, a head_limit, context windows.
ParseOptions ==
    {Defaults(Str_a, <<>>, m) : m \in OutputModes \ {"default"}}
    \cup {Options(Str_a, <<>>, "content", n, Absent, Absent, Absent, Absent) :
              n \in {"true", "false"}}
    \cup {Options(Str_a, <<>>, "content", "unset", Present(1), Absent, Absent, Absent),
          Options(Str_a, <<>>, "content", "unset", Absent, Absent, Absent, Present(1)),
          Options(Str_a, <<>>, "content", "unset", Absent, Present(1), Present(1), Absent)}

\* The calls made: every pattern with every path, every pattern with every
\* output mode, and the option sets above.
GrepOptions ==
    {Defaults(p, s, "default") : p \in GrepPatterns, s \in GrepPaths}
    \cup {Defaults(p, <<>>, m) : p \in GrepPatterns, m \in OutputModes}
    \cup ParseOptions

\* grep(workspace)(options) up to its await: validation, then spawn("rg", ...)
GrepCall(workspace, options, spawned) ==
    /\ rPc = "idle"
    /\ rCall' = [workspace |-> workspace, options |-> options]
    /\ LET start == grepStart(workspace, options)
       IN  /\ rExamined' = start.examined
           /\ rSpawned' = start.spawn
           /\ IF start.returned
              THEN /\ rResult' = start.result
                   /\ rPc' = "done"
                   /\ rProc' = "none"
              ELSE /\ rResult' = NoResult
                   /\ rPc' = "running"
                   /\ rProc' = IF spawned = "ok" THEN "alive" ELSE spawned
    /\ UNCHANGED <<rStdout, rStderr, rClose, rPromise>>

\* rg.stdout.on("data"): the backend writes one more line
StdoutData(line) ==
    /\ rProc = "alive"
    /\ Len(rStdout) < MaxLines
    /\ BackendMayWrite(buildRipgrepArgs(rCall.options, OutputMode(rCall.options)),
                       rStdout, line)
    /\ rStdout' = Append(rStdout, line)
    /\ UNCHANGED <<rPc, rCall, rExamined, rSpawned, rProc, rStderr, rClose, rPromise, rResult>>

\* rg.stderr.on("data")
StderrData(chunk) ==
    /\ rProc = "alive"
    /\ Len(rStderr) < MaxErrChunks
    /\ rStderr' = rStderr \o chunk
    /\ UNCHANGED <<rPc, rCall, rExamined, rSpawned, rProc, rStdout, rClose, rPromise, rResult>>

\* rg.on("close") of a process that ran.  ripgrep exits with 1 only when it
\* found no match, so it has then written no result line.
Close(code) ==
    /\ rProc = "alive"
    /\ code = "1" => \A i \in 1..Len(rStdout) : ~IsResultLine(rStdout[i])
    /\ rProc' = "closed"
    /\ rClose' = code
    /\ rPromise' = OnClose(rPromise, code, rStdout, rStderr)
    /\ UNCHANGED <<rPc, rCall, rExamined, rSpawned, rStdout, rStderr, rResult>>

\* rg.on("error"): the spawn failed
ErrorEvent ==
    /\ rProc \in {"ENOENT", "EACCES"}
    /\ rProc' = "errored"
    /\ rPromise' = OnError(rPromise, rProc)
    /\ UNCHANGED <<rPc, rCall, rExamined, rSpawned, rStdout, rStderr, rClose, rResult>>

\* rg.on("close") after a failed spawn: the code is the negated errno
CloseAfterError ==
    /\ rProc = "errored"
    /\ rProc' = "closed"
    /\ rClose' = "-2"
    /\ rPromise' = OnClose(rPromise, "-2", rStdout, rStderr)
    /\ UNCHANGED <<rPc, rCall, rExamined, rSpawned, rStdout, rStderr, rResult>>

\* grep without its catch: the rejection of executeRipgrep leaves the call.
grepFinishNoCatch(promise, outputMode, workspace, options) ==
    IF promise.state = "resolved"
    THEN Ok(parseRipgrepOutput(promise.value, outputMode, workspace, options))
    ELSE [rejected |-> promise.error]

\* What grep returns once the promise has settled: the parsed output, or the
\* message of the rejection (the catch of grep).
grepFinish(promise, outputMode, workspace, options) ==
    IF promise.state = "resolved"
    THEN Ok(parseRipgrepOutput(promise.value, outputMode, workspace, options))
    ELSE [success |-> FALSE, error |-> promise.error]

\* The continuation of grep after `await executeRipgrep(...)`
GrepResume ==
    /\ rPc = "running"
    /\ rPromise.state # "pending"
    /\ rResult' = grepFinish(rPromise, OutputMode(rCall.options), rCall.workspace,
                              rCall.options)
    /\ rPc' = "done"
    /\ UNCHANGED <<rCall, rExamined, rSpawned, rProc, rStdout, rStderr, rClose, rPromise>>

\* ---- grep from the resolved output on: the lines the backend wrote are
\* drawn one by one, then parsed

\* Bound of the backend output parsed.
MaxEvents == 4

ParseInit ==
    /\ pPc = "output"
    /\ pOptions \in ParseOptions
    /\ pOutput = <<>>
    /\ pResult = NoResult

\* The backend writes one more line of the output the promise resolves to.
BackendWrites(line) ==
    /\ pPc = "output"
    /\ Len(pOutput) < MaxEvents
    /\ BackendMayWrite(buildRipgrepArgs(pOptions, OutputMode(pOptions)), pOutput, line)
    /\ pOutput' = Append(pOutput, line)
    /\ UNCHANGED <<pPc, pOptions, pResult>>

\* const result = parseRipgrepOutput(rgOutput, ...); return {success, data}
ParseOutput ==
    /\ pPc = "output"
    /\ pResult' = grepFinish(Resolved(pOutput), OutputMode(pOptions), WS, pOptions)
    /\ pPc' = "done"
    /\ UNCHANGED <<pOptions, pOutput>>

(***************************************************************************)
(* read, write, edit and list over the tree and the texts of its files     *)
(***************************************************************************)

\* Bounds of the texts: a file's text, and the strings given to edit.
MaxTextLen == 3
MaxEditLen == 2

TextChars == {"a", "b"}

FilesOf(tree) == {p \in DOMAIN tree : tree[p] = "file"}

\* Each file holds its own absolute path as text: no two files agree.
OwnText(tree) == [p \in FilesOf(tree) |-> p]

\* One fs call of an operation: its name and the location it is made on.
FsCall(name, p) == [call |-> name, path |-> PathResolve(p)]

\* What a call leaves: its result, its fs calls, the tree and the texts.
Outcome(result, log, tree, texts) ==
    [result |-> result, log |-> log, fs |-> tree, content |-> texts]

\* {success: true} and {success: true, data: undefined}
Succeeded == [success |-> TRUE]
OkUndefined == [success |-> TRUE, data |-> "undefined"]

ErrReadTraversal == "Path traversal detected: <path> is outside workspace"
ErrNotAFile == "Path is not a file: "
ErrFileNotFound == "File not found: "
ErrEscapes == "Path escapes workspace"
ErrPathRequired == "Relative path is required"
ErrOldEmpty == "Old string cannot be empty"
ErrIdentical == "Old string and new string are identical"
ErrEditTraversal == "Path traversal detected - path must be within workspace"
ErrIsDirectory == "Path is a directory, not a file: "
ErrOldNotFound == "Old string not found in file"
ErrMultiple == "Multiple occurrences found. Use replaceAll option to replace all occurrences."
ErrFsThrew == "errno: "
ErrListFailed == "Failed to list directory: "

\* isPathSafe of read: below the workspace, or the workspace itself
isPathSafe(workspace, resolvedPath) ==
    LET normalizedWorkspace == PathResolve(workspace)
        normalizedPath == PathResolve(resolvedPath)
    IN  \/ StartsWith(normalizedPath, normalizedWorkspace \o <<"/">>)
        \/ normalizedPath = normalizedWorkspace

\* read(workspace)(relativePath)
readRun(tree, texts, workspace, relativePath) ==
    LET fullPath == PathJoin(workspace, FromHost(relativePath))
        stat == Stat(tree, fullPath)
    IN  IF IsAbsolute(FromHost(relativePath)) THEN
            Outcome(Fail(ErrReadTraversal, relativePath), <<>>, tree, texts)
        ELSE IF ~isPathSafe(workspace, fullPath) THEN
            Outcome(Fail(ErrReadTraversal, relativePath), <<>>, tree, texts)
        ELSE IF stat \in {"ENOENT", "ENOTDIR"} THEN
            Outcome(Fail(ErrFileNotFound, relativePath), <<FsCall("stat", fullPath)>>, tree, texts)
        ELSE IF stat # "file" THEN
            Outcome(Fail(ErrNotAFile, relativePath), <<FsCall("stat", fullPath)>>, tree, texts)
        ELSE Outcome(Ok(texts[PathResolve(fullPath)]),
                     <<FsCall("stat", fullPath), FsCall("readFile", fullPath)>>, tree, texts)

\* fs.mkdir(dirname, {recursive: true}): the directories it creates, or the
\* errno when an existing component is no directory.
Mkdir(tree, dirname) ==
    LET chain == Ancestors(dirname) \cup {PathResolve(dirname)}
        blocked == \E q \in chain : q \in DOMAIN tree /\ ~IsDirKind(tree[q])
        made == {q \in chain : q \notin DOMAIN tree}
    IN  IF blocked THEN [errno |-> "ENOTDIR", made |-> {}]
        ELSE [errno |-> "none", made |-> made]

\* The tree after mkdir and after writeFile.
WithDirs(tree, made) ==
    [p \in DOMAIN tree \cup made |-> IF p \in made THEN "dir" ELSE tree[p]]

WithFile(tree, p) ==
    [q \in DOMAIN tree \cup {p} |-> IF q = p THEN "file" ELSE tree[q]]

WithText(texts, p, text) ==
    [q \in DOMAIN texts \cup {p} |-> IF q = p THEN text ELSE texts[q]]

\* validatePath of write
validatePath(workspace, relativePath) ==
    LET absolutePath == PathResolve2(workspace, FromHost(relativePath))
        normalizedWorkspace == PathResolve(workspace)
    IN  IF ~StartsWith(absolutePath, normalizedWorkspace)
        THEN [threw |-> TRUE, path |-> <<>>]
        ELSE [threw |-> FALSE, path |-> absolutePath]

\* write(workspace)(relativePath, content)
writeRun(tree, texts, workspace, relativePath, text) ==
    LET valid == validatePath(workspace, relativePath)
        absolutePath == valid.path
        dirname == Dirname(absolutePath)
        mk == Mkdir(tree, dirname)
        tree2 == WithDirs(tree, mk.made)
        mkLog == <<FsCall("mkdir", dirname)>>
        wrLog == mkLog \o <<FsCall("writeFile", absolutePath)>>
    IN  IF valid.threw THEN Outcome(Fail(ErrEscapes, <<>>), <<>>, tree, texts)
        ELSE IF mk.errno # "none" THEN
            Outcome(Fail(ErrFsThrew, mk.errno), mkLog, tree, texts)
        ELSE IF absolutePath \in DOMAIN tree2 /\ IsDirKind(tree2[absolutePath]) THEN
            Outcome(Fail(ErrFsThrew, "EISDIR"), wrLog, tree2, texts)
        ELSE Outcome(Succeeded, wrLog, WithFile(tree2, absolutePath),
                     WithText(texts, absolutePath, text))

\* String.prototype.indexOf: the first start position (from 1), 0 if none
IndexOf(s, sub) ==
    LET starts == {i \in 1..(Len(s) - Len(sub) + 1) : SubSeq(s, i, i + Len(sub) - 1) = sub}
    IN  IF starts = {} THEN 0 ELSE CHOOSE i \in starts : \A j \in starts : i <= j

\* String.prototype.includes
Includes(s, sub) == IndexOf(s, sub) # 0

\* String.prototype.substring(from) and substring(0, to), positions from 0
SubstringFrom(s, from) == SubSeq(s, from + 1, Len(s))
SubstringTo(s, to) == SubSeq(s, 1, to)

RECURSIVE SplitJoin(_, _, _)
\* content.split(oldString).join(newString), oldString not empty
SplitJoin(s, old, new) ==
    LET index == IndexOf(s, old)
    IN  IF index = 0 THEN s
        ELSE SubstringTo(s, index - 1) \o new
             \o SplitJoin(SubstringFrom(s, index - 1 + Len(old)), old, new)

\* The edit call and its arguments.
EditArgs(relativePath, oldString, newString, replaceAll) ==
    [op |-> "edit", path |-> relativePath, oldString |-> oldString,
     newString |-> newString, replaceAll |-> replaceAll]

\* The replacement of edit: the new text, or the error.
Replace(text, a) ==
    LET index == IndexOf(text, a.oldString) - 1
        first == SubstringTo(text, index) \o a.newString
                 \o SubstringFrom(text, index + Len(a.oldString))
        remainingContent == SubstringFrom(text, index + Len(a.oldString))
    IN  IF ~Includes(text, a.oldString) THEN [error |-> ErrOldNotFound, text |-> text]
        ELSE IF a.replaceAll THEN
            [error |-> "none", text |-> SplitJoin(text, a.oldString, a.newString)]
        ELSE IF Includes(remainingContent, a.oldString) THEN
            [error |-> ErrMultiple, text |-> text]
        ELSE [error |-> "none", text |-> first]

\* edit that writes the replacement of the first occurrence before it looks
\* for further occurrences.
editRunWritesFirst(tree, texts, workspace, a) ==
    LET fullPath == PathResolve2(workspace, FromHost(a.path))
        stat == Stat(tree, fullPath)
        text == texts[fullPath]
        rd == <<FsCall("readFile", fullPath)>>
        wr == rd \o <<FsCall("writeFile", fullPath)>>
        index == IndexOf(text, a.oldString) - 1
        first == SubstringTo(text, index) \o a.newString
                 \o SubstringFrom(text, index + Len(a.oldString))
        r == Replace(text, a)
    IN  IF a.path = <<>> THEN Outcome(Fail(ErrPathRequired, <<>>), <<>>, tree, texts)
        ELSE IF a.oldString = <<>> THEN Outcome(Fail(ErrOldEmpty, <<>>), <<>>, tree, texts)
        ELSE IF a.oldString = a.newString THEN
            Outcome(Fail(ErrIdentical, <<>>), <<>>, tree, texts)
        ELSE IF ~StartsWith(fullPath, PathResolve(workspace)) THEN
            Outcome(Fail(ErrEditTraversal, <<>>), <<>>, tree, texts)
        ELSE IF stat = "ENOENT" THEN Outcome(Fail(ErrFileNotFound, a.path), rd, tree, texts)
        ELSE IF stat = "dir" THEN Outcome(Fail(ErrIsDirectory, a.path), rd, tree, texts)
        ELSE IF stat # "file" THEN Outcome(Fail(ErrFsThrew, stat), rd, tree, texts)
        ELSE IF r.error = ErrOldNotFound THEN Outcome(Fail(r.error, <<>>), rd, tree, texts)
        ELSE IF r.error # "none" THEN
            Outcome(Fail(r.error, <<>>), wr, tree, WithText(texts, fullPath, first))
        ELSE Outcome(OkUndefined, wr, tree, WithText(texts, fullPath, r.text))

\* edit(workspace)(relativePath, oldString, newString, options)
editRun(tree, texts, workspace, a) ==
    LET fullPath == PathResolve2(workspace, FromHost(a.path))
        stat == Stat(tree, fullPath)
        rd == <<FsCall("readFile", fullPath)>>
        r == Replace(texts[fullPath], a)
    IN  IF a.path = <<>> THEN Outcome(Fail(ErrPathRequired, <<>>), <<>>, tree, texts)
        ELSE IF a.oldString = <<>> THEN Outcome(Fail(ErrOldEmpty, <<>>), <<>>, tree, texts)
        ELSE IF a.oldString = a.newString THEN
            Outcome(Fail(ErrIdentical, <<>>), <<>>, tree, texts)
        ELSE IF ~StartsWith(fullPath, PathResolve(workspace)) THEN
            Outcome(Fail(ErrEditTraversal, <<>>), <<>>, tree, texts)
        ELSE IF stat = "ENOENT" THEN Outcome(Fail(ErrFileNotFound, a.path), rd, tree, texts)
        ELSE IF stat = "dir" THEN Outcome(Fail(ErrIsDirectory, a.path), rd, tree, texts)
        ELSE IF stat # "file" THEN Outcome(Fail(ErrFsThrew, stat), rd, tree, texts)
        ELSE IF r.error # "none" THEN Outcome(Fail(r.error, <<>>), rd, tree, texts)
        ELSE Outcome(OkUndefined, rd \o <<FsCall("writeFile", fullPath)>>, tree,
                     WithText(texts, fullPath, r.text))

\* One FileInfo of list (size and modifiedTime are left out).
FileInfo(tree, fullPath, relativePath, name) ==
    [name |-> name,
     path |-> HostPath(PathJoin(FromHost(relativePath), name)),
     isDirectory |-> IsDirKind(tree[PathResolve(PathJoin(fullPath, name))])]

\* The comparator of list: directories first, then by name.
InfoBefore(x, y) ==
    IF x.isDirectory = y.isDirectory THEN StrLess(x.name, y.name) ELSE x.isDirectory

RECURSIVE SortInfos(_)
SortInfos(S) ==
    IF S = {} THEN <<>>
    ELSE LET least == CHOOSE x \in S : \A y \in S \ {x} : InfoBefore(x, y)
         IN  <<least>> \o SortInfos(S \ {least})

\* list(workspace)(relativePath)
listRun(tree, workspace, relativePath) ==
    LET fullPath == PathJoin(workspace, FromHost(relativePath))
        stat == Stat(tree, fullPath)
        st == <<FsCall("stat", fullPath)>>
        rd == st \o <<FsCall("readdir", fullPath)>>
        entries == Readdir(tree, fullPath)
        infos == {FileInfo(tree, fullPath, relativePath, entries[i]) : i \in 1..Len(entries)}
    IN  IF ~StartsWith(PathNormalize(fullPath), PathNormalize(workspace)) THEN
            [result |-> Fail(ErrTraversal, <<>>), log |-> <<>>]
        ELSE IF stat = "ENOENT" THEN
            [result |-> Fail(ErrDirNotFound, OrDot(relativePath)), log |-> st]
        ELSE IF stat = "ENOTDIR" THEN [result |-> Fail(ErrListFailed, stat), log |-> st]
        ELSE IF stat # "dir" THEN
            [result |-> Fail(ErrNotADirectory, OrDot(relativePath)), log |-> st]
        ELSE IF ReaddirFails(tree, fullPath) THEN
            [result |-> Fail(ErrListFailed, "EACCES"), log |-> rd]
        ELSE [result |-> Ok(SortInfos(infos)), log |-> rd]

NoOp == [op |-> "none"]

\* The operation has run to completion: what it left is the state.
Finish(call, out) ==
    /\ oPc = "idle"
    /\ oCall' = call
    /\ oResult' = out.result
    /\ oLog' = out.log
    /\ fs' = out.fs
    /\ fContent' = out.content
    /\ oPc' = "done"

Read(workspace, relativePath) ==
    Finish([op |-> "read", workspace |-> workspace, path |-> relativePath],
           readRun(fs, fContent, workspace, relativePath))

Write(workspace, relativePath, text) ==
    Finish([op |-> "write", workspace |-> workspace, path |-> relativePath, text |-> text],
           writeRun(fs, fContent, workspace, relativePath, text))

Edit(workspace, a) ==
    Finish(a @@ [workspace |-> workspace], editRun(fs, fContent, workspace, a))

List(workspace, relativePath) ==
    LET out == listRun(fs, workspace, relativePath)
    IN  Finish([op |-> "list", workspace |-> workspace, path |-> relativePath],
               Outcome(out.result, out.log, fs, fContent))

\* The caller takes the result.
OpReturn ==
    /\ oPc = "done"
    /\ oPc' = "idle"
    /\ oCall' = NoOp
    /\ oLog' = <<>>
    /\ oResult' = NoResult
    /\ UNCHANGED <<fs, fContent>>

OpIdle ==
    /\ oPc = "idle"
    /\ oCall = NoOp
    /\ oLog = <<>>
    /\ oResult = NoResult

\* A POSIX host that lists directories by name.
EnvInit ==
    /\ fsOrder = "asc"
    /\ host = "posix"
    /\ fContent = OwnText(fs)

(***************************************************************************)
(* The select operation of the database package                            *)
(***************************************************************************)

\* Bound of the queries: the number of words of a query text.
MaxWords == 3

Word_select == <<"s", "e", "l", "e", "c", "t">>
Word_SELECT == <<"S", "E", "L", "E", "C", "T">>
Word_with == <<"w", "i", "t", "h">>
Word_drop == <<"d", "r", "o", "p">>
Word_DELETE == <<"D", "E", "L", "E", "T", "E">>
Word_delete == <<"d", "e", "l", "e", "t", "e">>
Word_1 == <<"1">>
Word_semi == <<";">>

\* The words of the queries; the empty word puts white space at an end.
QueryWords ==
    {<<>>, Word_select, Word_SELECT, Word_with, Word_drop, Word_DELETE, Word_1, Word_semi}

Queries ==
    {StrJoin(ws, " ") : ws \in UNION {[1..n -> QueryWords] : n \in 1..MaxWords}}

\* String.prototype.toLowerCase on the letters of the queries
LowerChar(c) ==
    CASE c = "S" -> "s"
      [] c = "E" -> "e"
      [] c = "L" -> "l"
      [] c = "C" -> "c"
      [] c = "T" -> "t"
      [] c = "D" -> "d"
      [] OTHER -> c

ToLowerCase(s) == [i \in DOMAIN s |-> LowerChar(s[i])]

\* isSelectQuery
isSelectQuery(query) ==
    LET trimmed == ToLowerCase(Trim(query))
    IN  StartsWith(trimmed, Word_select) \/ StartsWith(trimmed, Word_with)

ErrOnlySelect == "Only SELECT queries are allowed. Use SELECT or WITH statements."

\* What pool.query does with a query: it answers with rows or it throws.
PoolOutcomes == {"rows", "error"}

SelectIdle ==
    /\ qPc = "idle"
    /\ qQuery = <<>>
    /\ qPool = <<>>
    /\ qResult = NoResult

\* select(query): the check, then pool.query(query, params)
Select(query) ==
    /\ qPc = "idle"
    /\ qQuery' = query
    /\ IF ~isSelectQuery(query)
       THEN /\ qResult' = Fail(ErrOnlySelect, <<>>)
            /\ qPc' = "done"
            /\ UNCHANGED qPool
       ELSE /\ qPool' = Append(qPool, query)
            /\ qPc' = "sent"
            /\ UNCHANGED qResult

\* The pool settles the query: the rows, or the error of PostgreSQL.
PoolAnswers(outcome) ==
    /\ qPc = "sent"
    /\ qResult' = IF outcome = "rows"
                  THEN Ok([rows |-> <<>>, rowCount |-> 0, fields |-> <<>>])
                  ELSE Fail("error.message", <<>>)
    /\ qPc' = "done"
    /\ UNCHANGED <<qQuery, qPool>>

ParseIdle ==
    /\ pPc = "idle"
    /\ pOptions = Defaults(<<>>, <<>>, "default")
    /\ pOutput = <<>>
    /\ pResult = NoResult

MatchIdle ==
    /\ mPc = "idle"
    /\ mPattern = <<>>
    /\ mRegex = <<>>
    /\ mPath = <<>>
    /\ mResult = FALSE

GrepIdle ==
    /\ rPc = "idle"
    /\ rCall = [workspace |-> <<>>, options |-> <<>>]
    /\ rExamined = FALSE
    /\ rSpawned = <<>>
    /\ rProc = "none"
    /\ rStdout = <<>>
    /\ rStderr = <<>>
    /\ rClose = "none"
    /\ rPromise = Pending
    /\ rResult = NoResult

GlobIdle ==
    /\ fs = MkTree(TreeConfig(Name_d, <<{}>>, FALSE, {}))
    /\ gPc = "idle"
    /\ gCall = NoCall
    /\ gWalked = {}
    /\ gResult = NoResult

\* No file operation and no query is under way.
Quiet == EnvInit /\ OpIdle /\ SelectIdle

\* The state of a glob call apart from the tree.
gcall == <<gPc, gCall, gWalked, gResult>>

Init == GlobInit /\ MatchIdle /\ GrepIdle /\ ParseIdle /\ Quiet

\* The calls made: every pattern in the workspace root and in its
\* subdirectories, and every searchPath with "*" and with the empty pattern.
GlobCalls ==
    (GlobPatterns \X {<<>>, Name_d, Name_dnl}) \cup ({<<>>, Str_s} \X SearchPaths)

Next ==
    \/ \E w \in Workspaces, c \in GlobCalls :
           Glob(w, c[1], c[2]) /\ UNCHANGED <<mvars, rvars, pvars, evars, ovars, qvars>>
    \/ GlobReturn /\ UNCHANGED <<mvars, rvars, pvars, evars, ovars, qvars>>

Spec == Init /\ [][Next]_vars

InitMatch == MatchInit /\ GlobIdle /\ GrepIdle /\ ParseIdle /\ Quiet

NextMatch ==
    \/ \E p \in Patterns : Compile(p) /\ UNCHANGED <<gvars, rvars, pvars, evars, ovars, qvars>>
    \/ \E p \in TestPaths : Test(p) /\ UNCHANGED <<gvars, rvars, pvars, evars, ovars, qvars>>

SpecMatch == InitMatch /\ [][NextMatch]_vars


InitGrep == GrepIdle /\ MatchIdle /\ GlobIdle /\ ParseIdle /\ Quiet

NextGrep ==
    \/ \E o \in GrepOptions, sp \in SpawnOutcomes :
           GrepCall(WS, o, sp) /\ UNCHANGED <<mvars, gvars, pvars, evars, ovars, qvars>>
    \/ \E m \in OutputModes \ {"default"} : \E line \in BackendLines(m) :
           StdoutData(line) /\ UNCHANGED <<mvars, gvars, pvars, evars, ovars, qvars>>
    \/ StderrData(<<"x">>) /\ UNCHANGED <<mvars, gvars, pvars, evars, ovars, qvars>>
    \/ \E code \in ExitCodes : Close(code) /\ UNCHANGED <<mvars, gvars, pvars, evars, ovars, qvars>>
    \/ ErrorEvent /\ UNCHANGED <<mvars, gvars, pvars, evars, ovars, qvars>>
    \/ CloseAfterError /\ UNCHANGED <<mvars, gvars, pvars, evars, ovars, qvars>>
    \/ GrepResume /\ UNCHANGED <<mvars, gvars, pvars, evars, ovars, qvars>>

SpecGrep == InitGrep /\ [][NextGrep]_vars

\* The public boundary: glob calls, then a grep call, one call at a time, on
\* a tree with a directory that cannot be listed.
BoundaryTrees == {MkTree(TreeConfig(Name_d, <<FileNames, FileNames>>, FALSE, {1}))}

InitBoundary ==
    GlobInit /\ fs \in BoundaryTrees /\ MatchIdle /\ GrepIdle /\ ParseIdle /\ Quiet

NextBoundary ==
    \/ rPc = "idle" /\ Next
    \/ gPc = "idle" /\ NextGrep

SpecBoundary == InitBoundary /\ [][NextBoundary]_vars

InitParse == ParseInit /\ MatchIdle /\ GlobIdle /\ GrepIdle /\ Quiet

AllBackendLines == UNION {BackendLines(m) : m \in OutputModes \ {"default"}}

NextParse ==
    \/ \E line \in AllBackendLines :
           BackendWrites(line) /\ UNCHANGED <<mvars, gvars, rvars, evars, ovars, qvars>>
    \/ ParseOutput /\ UNCHANGED <<mvars, gvars, rvars, evars, ovars, qvars>>

SpecParse == InitParse /\ [][NextParse]_vars

\* glob on either host and under every listing order, and read of the paths
\* a call returned, on the same tree.
HostTrees == {MkTree(TreeConfig(Name_d, l, FALSE, {})) : l \in FullLevels}

InitHost ==
    /\ GlobInit /\ fs \in HostTrees
    /\ fsOrder \in ListingOrders
    /\ host \in Hosts
    /\ fContent = OwnText(fs)
    /\ MatchIdle /\ GrepIdle /\ ParseIdle /\ OpIdle /\ SelectIdle

\* read(workspace)(q) for a path q of the result of the glob call
ReadReturned ==
    /\ gPc = "done"
    /\ gResult.success
    /\ \E q \in Range(gResult.data) : Read(gCall.workspace, q)

NextHost ==
    \/ oPc = "idle" /\ Next
    \/ ReadReturned /\ UNCHANGED <<mvars, gcall, rvars, pvars, fsOrder, host, qvars>>
    \/ OpReturn /\ UNCHANGED <<mvars, gcall, rvars, pvars, fsOrder, host, qvars>>

SpecHost == InitHost /\ [][NextHost]_vars

\* One call of read, write, edit or list on a tree: the workspace /w holds
\* a.t, b and d/a.t, its sibling /w2 holds a.t.
OpsTree == MkTree(TreeConfig(Name_d, <<FileNames, {Name_a_t}>>, FALSE, {}))

Texts == StringsOver(TextChars, 0, MaxTextLen)
EditStrings == StringsOver(TextChars, 0, MaxEditLen)
Str_ab == <<"a", "b">>

\* The texts of the files: any text in /w/a.t, "ab" in every other file.
OpsTexts ==
    {[p \in FilesOf(OpsTree) |-> IF p = WS \o <<"/">> \o Name_a_t THEN t ELSE Str_ab]
        : t \in Texts}

\* The path arguments: inside the workspace, above it, in its sibling, and
\* absolute.
OpPaths ==
    {<<>>, Name_a_t, Name_d, Str_d_a_t, <<"x">>, <<"n", "/", "x">>,
     Name_a_t \o <<"/", "x">>,
     DotDot \o <<"/", "x">>,
     DotDot \o <<"/", "w", "2">>,
     DotDot \o <<"/", "w", "2", "/">> \o Name_a_t,
     DotDot \o <<"/", "w", "2", "/", "n", "/", "x">>,
     Sibling \o <<"/">> \o Name_a_t,
     <<"/", "x", "/", "y">>}

\* The edits: every pair of strings on a.t, and "a" -> "b" on every path.
EditCalls ==
    {EditArgs(Name_a_t, o, n, r) : o \in EditStrings, n \in EditStrings, r \in BOOLEAN}
    \cup {EditArgs(p, Str_a, Name_b, r) : p \in OpPaths, r \in BOOLEAN}

WriteTexts == {<<>>, Name_b}

InitOps ==
    /\ fs = OpsTree
    /\ fContent \in OpsTexts
    /\ fsOrder = "asc"
    /\ host = "posix"
    /\ gPc = "idle" /\ gCall = NoCall /\ gWalked = {} /\ gResult = NoResult
    /\ MatchIdle /\ GrepIdle /\ ParseIdle /\ OpIdle /\ SelectIdle

NextOps ==
    \/ \E p \in OpPaths :
           Read(WS, p) /\ UNCHANGED <<mvars, gcall, rvars, pvars, fsOrder, host, qvars>>
    \/ \E p \in OpPaths, t \in WriteTexts :
           Write(WS, p, t) /\ UNCHANGED <<mvars, gcall, rvars, pvars, fsOrder, host, qvars>>
    \/ \E a \in EditCalls :
           Edit(WS, a) /\ UNCHANGED <<mvars, gcall, rvars, pvars, fsOrder, host, qvars>>
    \/ \E p \in OpPaths :
           List(WS, p) /\ UNCHANGED <<mvars, gcall, rvars, pvars, fsOrder, host, qvars>>

SpecOps == InitOps /\ [][NextOps]_vars

\* One call of select.
InitSelect ==
    /\ SelectIdle
    /\ MatchIdle /\ GlobIdle /\ GrepIdle /\ ParseIdle /\ EnvInit /\ OpIdle

NextSelect ==
    \/ \E q \in Queries :
           Select(q) /\ UNCHANGED <<mvars, gvars, rvars, pvars, evars, ovars>>
    \/ \E o \in PoolOutcomes :
           PoolAnswers(o) /\ UNCHANGED <<mvars, gvars, rvars, pvars, evars, ovars>>

SpecSelect == InitSelect /\ [][NextSelect]_vars



(***************************************************************************)
(* Properties of glob                                                      *)
(***************************************************************************)

\* Whether the location `segs` is the location `root` or a descendant of it.
InsideSegs(segs, root) ==
    /\ Len(root) <= Len(segs)
    /\ SubSeq(segs, 1, Len(root)) = root

\* The segments of a path.
Segs(p) == StrSplit(p, "/")

\* The location a root-relative result denotes.
Denotes(workspace, q) == PathResolve(workspace \o <<"/">> \o q)

\* The directories strictly between a directory and an entry below it,
\* the directory itself included.
DirsDownTo(dir, f) ==
    {q \in Ancestors(f) : InsideSegs(ResolveSegs(q), ResolveSegs(dir))}

\* The regular files of the tree below a directory that listing reaches:
\* every directory from it down to the file can be listed.
FilesUnder(tree, dir) ==
    {f \in DOMAIN tree :
        /\ tree[f] = "file"
        /\ InsideSegs(ResolveSegs(f), ResolveSegs(dir))
        /\ \A q \in DirsDownTo(dir, f) : tree[q] = "dir"}

\* The path of a file below a directory, relative to that directory.
Below(dir, f) ==
    StrJoin(SubSeq(ResolveSegs(f), Len(ResolveSegs(dir)) + 1, Len(ResolveSegs(f))), "/")

GlobBase == BasePath(gCall.workspace, gCall.searchPath)

\* C1: glob never leaves the workspace.  Whenever the search directory is
\* neither the workspace root nor a descendant of it, a call with a pattern
\* returns the path-traversal error and walks no directory; and every path of
\* a successful result denotes a file inside the workspace.
C1_GlobStaysInWorkspace ==
    (gPc = "done" /\ gCall.pattern # <<>>) =>
        /\ ~InsideSegs(ResolveSegs(GlobBase), ResolveSegs(gCall.workspace)) =>
              /\ gResult = Fail(ErrTraversal, <<>>)
              /\ gWalked = {}
        /\ gResult.success =>
              \A q \in Range(gResult.data) :
                  InsideSegs(ResolveSegs(Denotes(gCall.workspace, q)),
                             ResolveSegs(gCall.workspace))

\* C3: "a/**/b" matches exactly the paths a/b, a/x/b, a/x/y/b, ... (first
\* segment a, last segment b, any complete segments between), and "**/b"
\* matches exactly the paths whose last segment is b, at every depth.
C3_DoubleStarSlashSegments ==
    mPc = "tested" =>
        /\ mPattern = Str_a_ss_b =>
              (mResult <=> /\ Len(Segs(mPath)) >= 2
                           /\ Segs(mPath)[1] = <<"a">>
                           /\ Segs(mPath)[Len(Segs(mPath))] = <<"b">>)
        /\ mPattern = Str_ss_b =>
              (mResult <=> Segs(mPath)[Len(Segs(mPath))] = <<"b">>)

HasDoubleStar(pattern) ==
    \E i \in 1..(Len(pattern) - 1) : pattern[i] = "*" /\ pattern[i + 1] = "*"

RECURSIVE SingleWildcardMatch(_, _, _, _)
\* The stated meaning of a pattern whose wildcards are single "*" and "?":
\* "*" is a run of characters other than "/", "?" is one such character,
\* every other character is itself.
SingleWildcardMatch(pattern, i, s, j) ==
    IF i > Len(pattern) THEN j > Len(s)
    ELSE IF pattern[i] = "*" THEN
        \E k \in j..(Len(s) + 1) :
            /\ \A m \in j..(k - 1) : s[m] # "/"
            /\ SingleWildcardMatch(pattern, i + 1, s, k)
    ELSE IF pattern[i] = "?" THEN
        j <= Len(s) /\ s[j] # "/" /\ SingleWildcardMatch(pattern, i + 1, s, j + 1)
    ELSE j <= Len(s) /\ s[j] = pattern[i] /\ SingleWildcardMatch(pattern, i + 1, s, j + 1)

IsLiteralPattern(pattern) == "*" \notin Range(pattern) /\ "?" \notin Range(pattern)

C7_RecursiveExtensionExact ==
    (gPc = "done" /\ gResult.success /\ gCall.pattern = Str_ss_sdt) =>
        Range(gResult.data) =
            {PathRelative(gCall.workspace, f) :
                f \in {x \in FilesUnder(fs, GlobBase) : EndsWith(x, <<".", "t">>)}}

\* C8: with a searchPath the pattern is tested against the path relative to
\* the search directory, and the paths returned are relative to the
\* workspace root: each denotes a regular file under the search directory
\* whose path below that directory matches, and each such file is returned.
C8_SearchPathResultsRootRelative ==
    (gPc = "done" /\ gResult.success /\ gCall.searchPath # <<>>) =>
        LET regex == globToRegex(gCall.pattern)
            hits == {f \in FilesUnder(fs, GlobBase) : RegExpTest(regex, Below(GlobBase, f))}
        IN  /\ \A q \in Range(gResult.data) : Denotes(gCall.workspace, q) \in hits
            /\ \A f \in hits : \E q \in Range(gResult.data) : Denotes(gCall.workspace, q) = f
            /\ \A q \in Range(gResult.data) : ~IsAbsolute(q)

C8_Witness ==
    /\ gPc = "done"
    /\ gCall.pattern = Str_sdt
    /\ gCall.searchPath = Name_d
    /\ gResult = Ok(<<Str_d_a_t>>)


(***************************************************************************)
(* Properties of grep                                                      *)
(***************************************************************************)

GrepBase == GrepSearchPath(rCall.workspace, rCall.options)

GrepCalled == rPc # "idle"

\* C2: grep never searches outside the workspace.  A call with a valid
\* pattern whose search path is neither the workspace root nor a descendant
\* of it returns 'Search path must be within workspace' and never launches
\* the backend.
C2_GrepStaysInWorkspace ==
    (/\ GrepCalled
     /\ rCall.options.pattern # <<>>
     /\ IsValidRegex(rCall.options.pattern)
     /\ ~InsideSegs(ResolveSegs(GrepBase), ResolveSegs(rCall.workspace))) =>
        /\ rPc = "done"
        /\ rResult = Fail(ErrSearchPath, <<>>)
        /\ rSpawned = <<>>

\* Whether an error carries a non-empty message.
ErrorNonEmpty(e) == e.msg # "" \/ e.arg # <<>>

C10_BadPatternFailsFast ==
    GrepCalled =>
        /\ rCall.options.pattern = <<>> =>
              /\ rPc = "done"
              /\ rResult = Fail(ErrGrepPatternRequired, <<>>)
              /\ ~rExamined
              /\ rSpawned = <<>>
        /\ (rCall.options.pattern # <<>> /\ ~IsValidRegex(rCall.options.pattern)) =>
              /\ rPc = "done"
              /\ ~rResult.success
              /\ rResult.error.msg = ErrInvalidRegex
              /\ ~rExamined
              /\ rSpawned = <<>>

C10_Witness ==
    /\ rPc = "done"
    /\ rCall.options.pattern = <<"[", "a">>
    /\ rCall.options.path = DotDot
    /\ rResult = Fail(ErrInvalidRegex, <<"[", "a">>)


(***************************************************************************)
(* Properties of the parsed backend output                                 *)
(***************************************************************************)

\* The call has returned in the given output mode.
Parsed(mode) == pPc = "done" /\ OutputMode(pOptions) = mode

\* The groups, or entries, of a successful result.
ResultData == pResult.data.data

\* The form of an absolute path of the workspace relative to its root.
RootRelative(p) == SubSeq(p, Len(WS) + 2, Len(p))

\* The index of the begin line (parsed or not) that a line of the output
\* stands under; 0 when there is none.
BeginOf(output, i) == BlockStart(SubSeq(output, 1, i - 1))

MatchEvents(output) == SelectSeq(output, LAMBDA e : e.type = "match")

\* c is t with its trailing whitespace removed.
IsTrailingTrimOf(c, t) ==
    /\ Len(c) <= Len(t)
    /\ c = SubSeq(t, 1, Len(c))
    /\ \A i \in (Len(c) + 1)..Len(t) : t[i] \in Whitespace
    /\ c # <<>> => c[Len(c)] \notin Whitespace

\* r is the Match record of the match event e.
IsRecordOf(r, e, options) ==
    /\ r.line = e.n
    /\ IsTrailingTrimOf(r.content, e.text)
    /\ r.column = IF options.n = "false" THEN Absent
                  ELSE IF e.subs = <<>> THEN Present(1)
                  ELSE Present(e.subs[1] + 1)

RECURSIVE InEventOrder(_, _, _)
\* The records are those of some of the events, in the order of the events.
InEventOrder(records, events, options) ==
    IF records = <<>> THEN TRUE
    ELSE IF events = <<>> THEN FALSE
    ELSE \/ /\ IsRecordOf(Head(records), Head(events), options)
            /\ InEventOrder(Tail(records), Tail(events), options)
         \/ InEventOrder(records, Tail(events), options)

RECURSIVE SumLen(_)
SumLen(groups) ==
    IF groups = <<>> THEN 0 ELSE Len(Head(groups).matches) + SumLen(Tail(groups))

\* C11: in content mode every match event of the backend produces one Match
\* record with the line number of the event, its text without trailing
\* whitespace, and the column of the first sub-match plus one (1 without
\* sub-matches); line and column are at least 1; the column is left out if
\* and only if "-n" is false; the records of a file are in event order.
C11_MatchEventsBecomeRecords ==
    Parsed("content") =>
        LET events == MatchEvents(pOutput) IN
        /\ pResult.success
        /\ SumLen(ResultData) = Len(events)
        /\ \A g \in Range(ResultData) :
              /\ InEventOrder(g.matches, events, pOptions)
              /\ \A r \in Range(g.matches) :
                    /\ r.line >= 1
                    /\ r.column # Absent => r.column[1] >= 1
                    /\ r.column = Absent <=> pOptions.n = "false"

\* C12: in content mode every group of the result holds at least one Match
\* record, and a file with a begin event but no match event under it is in
\* no group of the result.
C12_NoEmptyGroup ==
    Parsed("content") =>
        /\ \A g \in Range(ResultData) : Len(g.matches) >= 1
        /\ \A i \in 1..Len(pOutput) :
              (/\ pOutput[i].type = "begin"
               /\ \A j \in (i + 1)..Len(pOutput) :
                     pOutput[j].type = "match" => BeginOf(pOutput, j) # i)
              => \A g \in Range(ResultData) : g.path # RootRelative(pOutput[i].path)

\* What the claim takes for a count: a non-empty run of digits.
IsIntegerText(t) == t # <<>> /\ \A i \in 1..Len(t) : t[i] \in Digits

HasColon(t) == \E i \in 1..Len(t) : t[i] = ":"

\* The position of the last ':' of a line that has one.
LastColon(t) == CHOOSE i \in 1..Len(t) : t[i] = ":" /\ \A j \in (i + 1)..Len(t) : t[j] # ":"

CountSuffix(t) == SubSeq(t, LastColon(t) + 1, Len(t))

\* A count line the claim takes for parseable, and the entry it stands for.
IsCountLine(t) == HasColon(t) /\ IsIntegerText(CountSuffix(t))

CountLineEntry(t) ==
    [path |-> RootRelative(SubSeq(t, 1, LastColon(t) - 1)),
     count |-> DigitsValue(CountSuffix(t), 0)]

\* C13: in count mode each line is split at its last ':', the text before it
\* is the path made relative to the workspace root and the text after it the
\* count; a line without ':' or whose suffix is not an integer gives no
\* entry; the result holds one entry per parseable line, in backend order.
C13_CountLinesSplitAtLastColon ==
    Parsed("count") =>
        LET parseable == SelectSeq(pOutput, LAMBDA l : IsCountLine(l.text)) IN
        /\ pResult.success
        /\ ResultData = [i \in 1..Len(parseable) |-> CountLineEntry(parseable[i].text)]

\* C14: in count mode every entry of a successful result has a count of at
\* least 1.
C14_CountsArePositive ==
    (Parsed("count") /\ pResult.success) =>
        \A e \in Range(ResultData) : e.count >= 1

\* C15: in content mode with head_limit = k the match list of every file of
\* the result has at most k records.
C15_HeadLimitCapsEachFile ==
    (Parsed("content") /\ pOptions.head_limit # Absent) =>
        \A g \in Range(ResultData) : Len(g.matches) <= pOptions.head_limit[1]

\* The windows requested: "-C" for both sides, else "-B" and "-A".
WindowOf(side) ==
    IF pOptions.C # Absent THEN pOptions.C[1]
    ELSE IF side # Absent THEN side[1] ELSE 0

\* The match events standing under the same begin line as line i.
MatchesBeside(output, i) ==
    {j \in 1..Len(output) :
        output[j].type = "match" /\ BeginOf(output, j) = BeginOf(output, i)}

\* Whether the group of the file begun at line b holds a record for line
\* number n whose context on the given side holds the text.
RecordHoldsContext(b, n, side, text) ==
    \E g \in Range(ResultData) :
        /\ g.path = RootRelative(pOutput[b].path)
        /\ \E r \in Range(g.matches) :
              /\ r.line = n
              /\ LET ctx == IF side = "before" THEN r.beforeContext ELSE r.afterContext
                 IN  ctx # Absent /\ text \in Range(ctx[1])

\* C16: in content mode with a context window, the text of a context event
\* is in the afterContext of the nearest match of its file before it, or in
\* the beforeContext of the nearest match after it, within the window.
C16_ContextAttachedToNearestMatch ==
    Parsed("content") =>
        \A i \in 1..Len(pOutput) :
            (pOutput[i].type = "context" /\ pOutput[BeginOf(pOutput, i)].type = "begin") =>
                LET b == BeginOf(pOutput, i)
                    c == pOutput[i]
                    lines == {pOutput[j].n : j \in MatchesBeside(pOutput, i)}
                    above == {n \in lines : n < c.n /\ c.n - n <= WindowOf(pOptions.A)}
                    below == {n \in lines : n > c.n /\ n - c.n <= WindowOf(pOptions.B)}
                IN  /\ \A n \in above : (\A m \in above : m <= n) =>
                          RecordHoldsContext(b, n, "after", TrimEnd(c.text))
                    /\ \A n \in below : (\A m \in below : m >= n) =>
                          RecordHoldsContext(b, n, "before", TrimEnd(c.text))

\* A line the parser cannot read: in content mode invalid JSON or a begin
\* event without path text; in count mode a line without ':' or with no
\* digit where the count starts.
CannotBeParsed(line, mode) ==
    \/ mode = "content" /\ line.type \in {"bad", "badbegin"}
    \/ /\ mode = "count"
       /\ \/ ~HasColon(line.text)
          \/ LET t == TrimStart(CountSuffix(line.text))
                 u == IF t # <<>> /\ Head(t) \in {"-", "+"} THEN Tail(t) ELSE t
             IN  u = <<>> \/ Head(u) \notin Digits

IsOperationResult(r) ==
    /\ "success" \in DOMAIN r
    /\ \/ r.success /\ DOMAIN r = {"success", "data"}
       \/ ~r.success /\ DOMAIN r = {"success", "error"} /\ DOMAIN r.error = {"msg", "arg"}

\* C18: glob and grep never throw across the public boundary.  Whatever the
\* input, the tree and the fate of the backend, a call that has ended has
\* resolved to {success: true, data} without error or to {success: false,
\* error} without data.
C18_NeverThrows ==
    /\ gPc = "done" => IsOperationResult(gResult)
    /\ rPc = "done" => IsOperationResult(rResult)

C18_Witness ==
    /\ rPc = "done"
    /\ rClose = "2"
    /\ rStderr # <<>>
    /\ rResult = [success |-> FALSE, error |-> [msg |-> "", arg |-> rStderr]]

\* The directories the walk from a directory comes to: every directory
\* above them, from the start on, can be listed.
DirsReached(tree, dir) ==
    {d \in DOMAIN tree :
        /\ IsDirKind(tree[d])
        /\ InsideSegs(ResolveSegs(d), ResolveSegs(dir))
        /\ \A q \in DirsDownTo(dir, d) : tree[q] = "dir"}

\* C19: a result holds regular files only.  Every directory the walk comes
\* to is traversed and none is returned, also when "*" matches its name; an
\* entry that is neither a regular file nor a directory is neither returned
\* nor traversed.
C19_RegularFilesOnly ==
    (gPc = "done" /\ gResult.success) =>
        /\ \A q \in Range(gResult.data) :
              /\ Denotes(gCall.workspace, q) \in DOMAIN fs
              /\ fs[Denotes(gCall.workspace, q)] = "file"
        /\ \A d \in DirsReached(fs, GlobBase) : \E w \in gWalked : PathResolve(w) = d
        /\ \A w \in gWalked : IsDirKind(fs[PathResolve(w)])

C19_Witness ==
    /\ gPc = "done"
    /\ gCall.pattern = Str_s
    /\ gCall.searchPath = <<>>
    /\ WS \o <<"/">> \o Name_o_t \in DOMAIN fs
    /\ WS \o <<"/">> \o Name_d \in {PathResolve(w) : w \in gWalked}
    /\ gResult = Ok(<<Name_a_t, Name_b>>)

\* C20: a subdirectory that cannot be listed does not fail the call.  When
\* a listing fails during the walk the call still succeeds, and its result
\* is exactly the matching files of the directories that can be listed and
\* are reached through such directories.
C20_UnreadableSubdirectorySkipped ==
    (/\ gPc = "done"
     /\ gCall.pattern # <<>>
     /\ GlobWithinWorkspace(GlobBase, gCall.workspace)
     /\ Stat(fs, GlobBase) = "dir"
     /\ \E d \in DirsReached(fs, GlobBase) : fs[d] = "locked")
    =>  LET regex == globToRegex(gCall.pattern)
            hits == {f \in FilesUnder(fs, GlobBase) : RegExpTest(regex, Below(GlobBase, f))}
        IN  /\ gResult.success
            /\ Range(gResult.data) = {PathRelative(gCall.workspace, f) : f \in hits}
            /\ Len(gResult.data) = Cardinality(hits)

C20_Witness ==
    /\ gPc = "done"
    /\ gCall.pattern = Str_ss_s
    /\ gCall.searchPath = <<>>
    /\ WS \o <<"/">> \o Str_d_a_t \in DOMAIN fs
    /\ fs[WS \o <<"/">> \o Name_d] = "locked"
    /\ gResult = Ok(<<Name_a_t, Name_b, Name_e \o <<"/">> \o Name_a_t>>)


(***************************************************************************)
(* Properties of glob under the listing order and the host                 *)
(***************************************************************************)

\* C21: the sequence a successful glob returns is sorted in strictly
\* ascending lexicographic order (so no path comes twice), in whatever order
\* the filesystem lists the entries of a directory.
C21_SortedWhateverTheListing ==
    (gPc = "done" /\ gResult.success) =>
        \A i \in 1..Len(gResult.data), j \in 1..Len(gResult.data) :
            i < j => StrLess(gResult.data[i], gResult.data[j])

C21_Witness ==
    /\ gPc = "done"
    /\ gResult.success
    /\ fsOrder = "rot"
    /\ Len(gResult.data) >= 3
    /\ GlobResultsUnsorted(fs, gCall.workspace, GlobBase, gCall.pattern) # gResult.data

\* C22: every path of a successful result is relative, never absolute, and
\* has "/" between its segments on either host: it is the path of a file of
\* the tree from the workspace root, written with "/".
C22_RelativeWithForwardSlashes ==
    (gPc = "done" /\ gResult.success) =>
        \A q \in Range(gResult.data) :
            /\ ~IsAbsolute(q)
            /\ \E f \in FilesOf(fs) : q = PathRelative(gCall.workspace, f)

\* C23: glob checks its preconditions in a fixed order and reports the first
\* that fails, word for word: an empty pattern gives 'Pattern is required'
\* whatever the searchPath; else a search directory outside the workspace
\* gives the traversal error; else a missing search directory gives
\* 'Directory not found: <searchPath or .>'; else one that is no directory
\* gives 'Not a directory: <searchPath or .>'.  No directory is walked then.
C23_PreconditionsInOrder ==
    gPc = "done" =>
        LET base == PathResolve(GlobBase)
            outside == ~InsideSegs(ResolveSegs(GlobBase), ResolveSegs(gCall.workspace))
            missing == base \notin DOMAIN fs
            expected ==
                IF gCall.pattern = <<>> THEN Fail(ErrPatternRequired, <<>>)
                ELSE IF outside THEN Fail(ErrTraversal, <<>>)
                ELSE IF missing THEN Fail(ErrDirNotFound, OrDot(gCall.searchPath))
                ELSE Fail(ErrNotADirectory, OrDot(gCall.searchPath))
        IN  (gCall.pattern = <<>> \/ outside \/ missing \/ ~IsDirKind(fs[base])) =>
                /\ gResult = expected
                /\ gWalked = {}


(***************************************************************************)
(* Properties of read, write, edit and list                                *)
(***************************************************************************)

\* C24: round trip between glob and read.  On the tree the glob call ran
\* on, read of a path the call returned, with the same workspace root,
\* succeeds with the text of the file the path denotes: it is not rejected
\* as a directory, as not found or as a path traversal.
C24_GlobResultsAreReadable ==
    (/\ gPc = "done"
     /\ gResult.success
     /\ oPc = "done"
     /\ oCall.op = "read"
     /\ oCall.workspace = gCall.workspace
     /\ oCall.path \in Range(gResult.data))
    =>  /\ Denotes(gCall.workspace, FromHost(oCall.path)) \in FilesOf(fs)
        /\ oResult = Ok(fContent[Denotes(gCall.workspace, FromHost(oCall.path))])

\* The location the path argument of the call resolves to.
Target(call) == PathResolve2(call.workspace, FromHost(call.path))

Outside(workspace, p) == ~InsideSegs(ResolveSegs(p), ResolveSegs(workspace))

\* The fs calls that read, create or modify.
TouchingCalls == {"readFile", "readdir", "mkdir", "writeFile"}

\* C25: read, write, edit and list are sandboxed.  When the path argument
\* resolves to a location that is neither the workspace root nor inside it,
\* the operation returns {success: false}; it reads, creates and modifies
\* nothing outside the workspace: no directory and no file appears there and
\* no file there is rewritten.
C25_OperationsAreSandboxed ==
    (oPc = "done" /\ Outside(oCall.workspace, Target(oCall))) =>
        /\ ~oResult.success
        /\ \A i \in 1..Len(oLog) :
              oLog[i].call \in TouchingCalls => ~Outside(oCall.workspace, oLog[i].path)
        /\ \A p \in DOMAIN fs :
              Outside(oCall.workspace, p) => p \in DOMAIN OpsTree /\ fs[p] = OpsTree[p]
        /\ \A p \in FilesOf(fs) : Outside(oCall.workspace, p) => fContent[p] = Str_ab

\* The start positions of the occurrences of a string in a text.
Occurrences(text, sub) ==
    {i \in 1..(Len(text) - Len(sub) + 1) : SubSeq(text, i, i + Len(sub) - 1) = sub}

\* A text with the occurrence at position i replaced.
ReplacedAt(text, i, old, new) ==
    SubSeq(text, 1, i - 1) \o new \o SubSeq(text, i + Len(old), Len(text))

\* An edit call ends in this step.
EditEnds == oPc = "idle" /\ oPc' = "done" /\ oCall'.op = "edit"

\* The edit call that ends in this step came to the text of a file of the
\* workspace: its arguments passed the checks and the path names a file.
EditReadsFile ==
    /\ EditEnds
    /\ oCall'.path # <<>>
    /\ oCall'.oldString # <<>>
    /\ oCall'.oldString # oCall'.newString
    /\ ~Outside(oCall'.workspace, Target(oCall'))
    /\ Target(oCall') \in FilesOf(fs)

\* C26: edit without replaceAll replaces only when exactly one occurrence
\* exists.  With oldString at exactly one start position of the text the
\* call succeeds and the new text is the old one with that occurrence
\* replaced by newString; with none it returns 'Old string not found in
\* file'; with two or more, overlapping ones included, it returns the
\* 'Multiple occurrences found' error.
C26_EditReplacesOnlyAUniqueOccurrence ==
    [][(EditReadsFile /\ ~oCall'.replaceAll) =>
          LET text == fContent[Target(oCall')]
              occ == Occurrences(text, oCall'.oldString)
          IN  /\ Cardinality(occ) = 1 =>
                    /\ oResult'.success
                    /\ fContent'[Target(oCall')] =
                           ReplacedAt(text, CHOOSE i \in occ : TRUE,
                                      oCall'.oldString, oCall'.newString)
              /\ Cardinality(occ) = 0 => oResult' = Fail(ErrOldNotFound, <<>>)
              /\ Cardinality(occ) >= 2 => oResult' = Fail(ErrMultiple, <<>>)]_vars

QueryTokens(query) ==
    SelectSeq(StrSplit(ToLowerCase(query), " "), LAMBDA w : w # <<>>)

MutatingWords == {Word_drop, Word_delete}

\* The query holds a statement that mutates: a mutating word stands at the
\* start of the text or after a ";".
PerformsMutation(query) ==
    LET t == QueryTokens(query)
    IN  \E i \in 1..Len(t) :
            t[i] \in MutatingWords /\ (i = 1 \/ t[i - 1] = Word_semi)

\* C27: select is read-only.  A query that performs a mutation, wherever
\* the mutating statement stands in the text, is rejected with 'Only SELECT
\* queries are allowed' and never handed to the connection pool; the
\* queries handed to the pool start with SELECT or WITH.
C27_SelectIsReadOnly ==
    /\ (qPc # "idle" /\ PerformsMutation(qQuery)) =>
          /\ qPool = <<>>
          /\ qPc = "done"
          /\ qResult = Fail(ErrOnlySelect, <<>>)
    /\ \A i \in 1..Len(qPool) :
          /\ QueryTokens(qPool[i]) # <<>>
          /\ QueryTokens(qPool[i])[1] \in {Word_select, Word_with}


(***************************************************************************)
(* Properties of the content groups and of the backend call                *)
(***************************************************************************)

\* The match events that stand under a parsed begin line of the file.
MatchesOfFile(output, file) ==
    SelectSeq([j \in 1..Len(output) |->
                  [e |-> output[j],
                   own |-> /\ output[j].type = "match"
                           /\ BeginOf(output, j) # 0
                           /\ output[BeginOf(output, j)].type = "begin"
                           /\ RootRelative(output[BeginOf(output, j)].path) = file]],
              LAMBDA x : x.own)

\* The position of the first begin line of a file in the output.
FirstBegin(output, file) ==
    CHOOSE i \in 1..Len(output) :
        /\ output[i].type = "begin" /\ RootRelative(output[i].path) = file
        /\ \A j \in 1..(i - 1) :
              ~(output[j].type = "begin" /\ RootRelative(output[j].path) = file)

\* C28: in content mode no match is reported under the wrong file.  The
\* records of a group are those of the match events whose most recent begin
\* line is a begin line of the group's file, one each; so the matches that
\* follow a begin line that cannot be parsed are under no earlier file.  No
\* two groups have the same path, and the groups are in the order of the
\* first begin lines of their files.
C28_MatchesUnderTheirOwnFile ==
    Parsed("content") =>
        /\ \A g \in Range(ResultData) :
              LET own == MatchesOfFile(pOutput, g.path)
              IN  /\ Len(g.matches) = Len(own)
                  /\ \A k \in 1..Len(own) : IsRecordOf(g.matches[k], own[k].e, pOptions)
        /\ \A k \in 1..Len(ResultData), l \in 1..Len(ResultData) :
              k < l => /\ ResultData[k].path # ResultData[l].path
                       /\ FirstBegin(pOutput, ResultData[k].path)
                             < FirstBegin(pOutput, ResultData[l].path)

\* The promise of the backend call is settled for good, and a spawn that
\* failed because the binary is absent rejects it with the message of its
\* own.
SettlesOnce ==
    /\ rPromise.state # "pending" => rPromise' = rPromise
    /\ (rProc = "ENOENT" /\ rProc' = "errored") =>
          rPromise' = Rejected([msg |-> ErrNotInstalled, arg |-> <<>>])

\* The promise resolves only on a close with code 0 or 1, with the stdout
\* chunks in arrival order, and is settled once the process has ended or
\* has failed to start.
SettledWhenOver ==
    /\ rPromise.state = "resolved" =>
          /\ rProc = "closed"
          /\ rClose \in {"0", "1"}
          /\ rPromise.value = rStdout
    /\ rProc \in {"closed", "errored"} => rPromise.state # "pending"
    /\ (rProc = "closed" /\ rClose \notin {"0", "1"}) => rPromise.state = "rejected"

====
